---- MODULE Spec2Model ----
(***************************************************************************)
(* A model of pygame's software rasterizer, src_c/draw.c.                  *)
(*                                                                         *)
(* One action per Python-level primitive (line, lines, aaline, aalines,    *)
(* arc, ellipse, circle, polygon, rect).  An action is one whole call: it  *)
(* runs the C function from argument checks to the returned Rect on a      *)
(* surface whose pixels are all unwritten, and leaves in the variables     *)
(* what the call did:                                                      *)
(*   call        the primitive and its arguments                           *)
(*   clip        the surface's clip rect (surf->clip_rect)                 *)
(*   pix         the pixels whose bytes the call stored                    *)
(*   drawn_area  the call's bounding-box accumulator (int drawn_area[4])   *)
(*   log         the call's events in program order: lock, unlock,         *)
(*               PyMem_New, PyMem_Del, every set_at with its return value  *)
(*   heap        the scratch buffers still allocated when the call returns *)
(*   ret         the returned Rect, or the raised exception                *)
(*   pyerr       the Python error indicator when the call returns          *)
(*   fault       hang: a loop of the call cannot end; ub: the call read    *)
(*               memory it never initialised or converted a NaN or an      *)
(*               infinity to int                                           *)
(*   stroke      the value of the local variable width when the call       *)
(*               started to draw, -1 when it never did                     *)
(*                                                                         *)
(* The rasterizers are operators that thread a drawing state               *)
(* [clip, pix, da, log, heap, hang, ub, stroke, pyerr] through the calls the *)
(* C code makes, in the order it makes them.  hang records a loop that cannot     *)
(* end, ub a read of memory the call never initialised.                    *)
(***************************************************************************)
EXTENDS Integers, Sequences, FiniteSets, TLC

VARIABLES call, clip, pix, drawn_area, log, heap, ret, pyerr, stroke, fault

vars == <<call, clip, pix, drawn_area, log, heap, ret, pyerr, stroke, fault>>

(***************************************************************************)
(* Bounds of the model.                                                    *)
(***************************************************************************)
\* The surface is SurfW x SurfH pixels; coordinates range one pixel beyond it.
SurfW == 4
SurfH == 4
\* Largest width argument of a primitive.
MaxWidth == 3
\* Largest radius argument of circle and rect.
MaxRadius == 3
\* Largest number of items of a points argument.
MaxPoints == 3
\* Largest number of angles a draw_arc loop visits.
MaxSamples == 3

(***************************************************************************)
(* Program constants.                                                      *)
(***************************************************************************)
INT_MAX == 2147483647
INT_MIN == -INT_MAX - 1

(***************************************************************************)
(* C arithmetic.                                                           *)
(***************************************************************************)
abs(a) == IF a < 0 THEN -a ELSE a

MIN(a, b) == IF a < b THEN a ELSE b

MAX(a, b) == IF a > b THEN a ELSE b

\* C's integer division truncates toward zero.
CDiv(a, b) == IF (a >= 0) = (b > 0) THEN abs(a) \div abs(b)
              ELSE -(abs(a) \div abs(b))

\* C's % has the sign of the dividend.
CMod(a, b) == a - b * CDiv(a, b)

\* a - b is no int: the subtraction of two ints overflows.
Overflows(a, b) == (b < 0 /\ a > INT_MAX + b) \/ (b > 0 /\ a < INT_MIN + b)

\* a - b as the machine computes it: the difference, wrapped to 32 bits
\* when it overflows.
IntSub(a, b) ==
    IF b < 0 /\ a > INT_MAX + b THEN ((a + INT_MIN) - b) + INT_MIN
    ELSE IF b > 0 /\ a < INT_MIN + b THEN ((a + INT_MAX + 1) - b) + INT_MAX + 1
    ELSE a - b

\* |a - b| > d, for ints a and b however far apart.
Apart(a, b, d) == Overflows(a, b) \/ abs(a - b) > d

(***************************************************************************)
(* Events of a call.                                                       *)
(***************************************************************************)
Ev(e, x, y, ok) == [ev |-> e, x |-> x, y |-> y, ok |-> ok]

Emit(st, e) == [st EXCEPT !.log = Append(@, e)]

\* The drawing state a call starts with: nothing stored, empty accumulator.
NewState(c) == [clip |-> c, pix |-> {}, da |-> <<INT_MAX, INT_MAX, INT_MIN, INT_MIN>>,
                log |-> <<>>, heap |-> {}, hang |-> FALSE, ub |-> FALSE,
                stroke |-> -1, pyerr |-> ""]

\* pgSurface_Lock / pgSurface_Unlock: the environment decides the outcome.
Lock(st, ok) == Emit(st, Ev("lock", 0, 0, ok))

\* A call that returns without releasing the lock.
UnlockSkipped(st, ok) == st

\* A call whose loop cannot end never comes to unlock.
Unlock(st, ok) == IF st.hang THEN st ELSE Emit(st, Ev("unlock", 0, 0, ok))

\* The scratch buffers: 1 is xlist, 2 is ylist, 3 is x_intersect.
\* PyMem_New: NULL when the allocation fails.
Alloc(st, buf, ok) ==
    [Emit(st, Ev("alloc", buf, 0, ok)) EXCEPT !.heap = IF ok THEN @ \cup {buf} ELSE @]

\* PyMem_Del / PyMem_Free.
Free(st, buf) ==
    IF st.hang THEN st
    ELSE [Emit(st, Ev("free", buf, 0, TRUE)) EXCEPT !.heap = @ \ {buf}]

Rect(x, y, w, h) == [kind |-> "rect", x |-> x, y |-> y, w |-> w, h |-> h, exc |-> ""]

Raise(e) == [kind |-> "error", x |-> 0, y |-> 0, w |-> 0, h |-> 0, exc |-> e]

NoRet == [kind |-> "none", x |-> 0, y |-> 0, w |-> 0, h |-> 0, exc |-> ""]

(***************************************************************************)
(* The clip-aware pixel writer and the bounding-box accumulator.           *)
(***************************************************************************)
add_pixel_to_drawn_list(x, y, pts) ==
    <<IF x < pts[1] THEN x ELSE pts[1],
      IF y < pts[2] THEN y ELSE pts[2],
      IF x > pts[3] THEN x ELSE pts[3],
      IF y > pts[4] THEN y ELSE pts[4]>>

\* The clip test with its right and bottom bounds one too far.
OutsideClipInclusive(c, x, y) ==
    \/ x < c.x
    \/ x > c.x + c.w
    \/ y < c.y
    \/ y > c.y + c.h

\* The clip test of set_at: TRUE when (x, y) is outside the clip rect.
OutsideClip(c, x, y) ==
    \/ x < c.x
    \/ x >= c.x + c.w
    \/ y < c.y
    \/ y >= c.y + c.h

set_at(st, x, y) ==
    IF OutsideClip(st.clip, x, y)
    THEN Emit(st, Ev("set_at", x, y, FALSE))
    ELSE [Emit(st, Ev("set_at", x, y, TRUE)) EXCEPT
             !.pix = @ \cup {<<x, y>>},
             !.da = add_pixel_to_drawn_list(x, y, @)]

(***************************************************************************)
(* draw_line: Bresenham.                                                   *)
(***************************************************************************)
RECURSIVE draw_line_h_short(_, _, _, _, _, _)
\* The horizontal loop with sx < abs(x1 - x2): it stops one pixel short.
draw_line_h_short(st, x1, y1, dx, sx, n) ==
    IF st.hang \/ sx >= n THEN st
    ELSE draw_line_h_short(set_at(st, x1 + dx * sx, y1), x1, y1, dx, sx + 1, n)

RECURSIVE draw_line_h(_, _, _, _, _, _)
\* for (sx = 0; sx <= abs(x1 - x2); sx++) set_at(x1 + dx * sx, y1)
draw_line_h(st, x1, y1, dx, sx, n) ==
    IF st.hang \/ sx > n THEN st
    ELSE draw_line_h(set_at(st, x1 + dx * sx, y1), x1, y1, dx, sx + 1, n)

RECURSIVE draw_line_v(_, _, _, _, _, _)
\* for (sy = 0; sy <= abs(y1 - y2); sy++) set_at(x1, y1 + dy * sy)
draw_line_v(st, x1, y1, dy, sy, n) ==
    IF st.hang \/ sy > n THEN st
    ELSE draw_line_v(set_at(st, x1, y1 + dy * sy), x1, y1, dy, sy + 1, n)

\* One pass of the general loop's body after its set_at: the new (x1, y1, err).
BresenhamStep(x1, y1, dx, dy, sx, sy, err) ==
    LET e2 == err
        err1 == IF e2 > -dx THEN err - dy ELSE err
        nx == IF e2 > -dx THEN x1 + sx ELSE x1
        err2 == IF e2 < dy THEN err1 + dx ELSE err1
        ny == IF e2 < dy THEN y1 + sy ELSE y1
    IN [x |-> nx, y |-> ny, err |-> err2]

RECURSIVE draw_line_loop(_, _, _, _, _, _, _, _, _, _)
\* while (x1 != x2 || y1 != y2) { set_at; step }.  A walk that has left the
\* box spanned by the endpoints can never meet (x2, y2): the loop would not
\* end, which the state records as hang.
draw_line_loop(st, x1, y1, x2, y2, dx, dy, sx, sy, err) ==
    IF st.hang \/ (x1 = x2 /\ y1 = y2) THEN st
    ELSE IF Apart(x2, x1, dx) \/ Apart(y2, y1, dy) THEN [st EXCEPT !.hang = TRUE]
    ELSE LET n == BresenhamStep(x1, y1, dx, dy, sx, sy, err)
         IN draw_line_loop(set_at(st, x1, y1), n.x, n.y, x2, y2, dx, dy, sx, sy, n.err)

\* dx = abs(x2 - x1), dy = abs(y2 - y1): undefined when a difference
\* overflows int.
LineStart(st, x1, y1, x2, y2) ==
    IF Overflows(x2, x1) \/ Overflows(y2, y1) THEN [st EXCEPT !.ub = TRUE] ELSE st

\* set_at(x2, y2) after the general loop, which a loop that hangs never reaches.
LineEnd(st, x2, y2) == IF st.hang THEN st ELSE set_at(st, x2, y2)

\* draw_line without the set_at that follows the general loop: the end of a
\* sloped line is not drawn.
draw_line_open(st, x1, y1, x2, y2) ==
    IF x1 = x2 /\ y1 = y2 THEN set_at(st, x1, y1)
    ELSE IF y1 = y2
         THEN draw_line_h(st, x1, y1, IF x1 < x2 THEN 1 ELSE -1, 0, abs(x1 - x2))
    ELSE IF x1 = x2
         THEN draw_line_v(st, x1, y1, IF y1 < y2 THEN 1 ELSE -1, 0, abs(y1 - y2))
    ELSE LET dx == abs(IntSub(x2, x1))
             sx == IF x1 < x2 THEN 1 ELSE -1
             dy == abs(IntSub(y2, y1))
             sy == IF y1 < y2 THEN 1 ELSE -1
             err == CDiv(IF dx > dy THEN dx ELSE -dy, 2)
         IN draw_line_loop(LineStart(st, x1, y1, x2, y2),
                           x1, y1, x2, y2, dx, dy, sx, sy, err)

draw_line(st, x1, y1, x2, y2) ==
    IF x1 = x2 /\ y1 = y2 THEN set_at(st, x1, y1)
    ELSE IF y1 = y2
         THEN draw_line_h(st, x1, y1, IF x1 < x2 THEN 1 ELSE -1, 0, abs(x1 - x2))
    ELSE IF x1 = x2
         THEN draw_line_v(st, x1, y1, IF y1 < y2 THEN 1 ELSE -1, 0, abs(y1 - y2))
    ELSE LET dx == abs(IntSub(x2, x1))
             sx == IF x1 < x2 THEN 1 ELSE -1
             dy == abs(IntSub(y2, y1))
             sy == IF y1 < y2 THEN 1 ELSE -1
             err == CDiv(IF dx > dy THEN dx ELSE -dy, 2)
         IN LineEnd(draw_line_loop(LineStart(st, x1, y1, x2, y2),
                                   x1, y1, x2, y2, dx, dy, sx, sy, err), x2, y2)

(***************************************************************************)
(* draw_line_width: the central line and its parallel copies.              *)
(***************************************************************************)
\* pts shifted by k along the thickening axis.
Shifted(pts, xinc, yinc, k) ==
    <<pts[1] + xinc * k, pts[2] + yinc * k, pts[3] + xinc * k, pts[4] + yinc * k>>

\* draw_line on pts = <<x1, y1, x2, y2>> when cond holds.
LineIf(st, cond, pts) ==
    IF cond THEN draw_line(st, pts[1], pts[2], pts[3], pts[4]) ELSE st

RECURSIVE draw_line_width_loop(_, _, _, _, _, _)
\* for (loop = 1; loop < width; loop += 2) { +offset line; -offset line }
draw_line_width_loop(st, width, pts, xinc, yinc, loop) ==
    IF st.hang \/ ~(loop < width) THEN st
    ELSE LET k == CDiv(loop, 2) + 1
         IN draw_line_width_loop(
                LineIf(LineIf(st, TRUE, Shifted(pts, xinc, yinc, k)),
                       loop + 1 < width, Shifted(pts, xinc, yinc, -k)),
                width, pts, xinc, yinc, loop + 2)

\* The choice of axis with a tie going to the y direction.
ThickenYOnTie(pts) == abs(IntSub(pts[1], pts[3])) >= abs(IntSub(pts[2], pts[4]))

\* TRUE when the thickness grows in the y direction.
ThickenY(pts) == abs(IntSub(pts[1], pts[3])) > abs(IntSub(pts[2], pts[4]))

\* The parallel copies drawn for an even width alone.
ThickenEven(st, width, pts, xinc, yinc) ==
    IF width % 2 = 0 THEN draw_line_width_loop(st, width, pts, xinc, yinc, 1) ELSE st

\* if (width != 1) { the parallel copies }
Thicken(st, width, pts, xinc, yinc) ==
    IF width # 1 THEN draw_line_width_loop(st, width, pts, xinc, yinc, 1) ELSE st

draw_line_width(st, width, pts) ==
    Thicken(draw_line(st, pts[1], pts[2], pts[3], pts[4]), width, pts,
            IF ThickenY(pts) THEN 0 ELSE 1, IF ThickenY(pts) THEN 1 ELSE 0)

(***************************************************************************)
(* The circle rasters.  All three share the Bresenham driver: x grows from *)
(* 0 while y descends from radius.                                         *)
(***************************************************************************)
SetIf(st, cond, x, y) == IF cond THEN set_at(st, x, y) ELSE st

\* The driver's variables before the first pass.
Driver(radius) == [f |-> 1 - radius, ddF_x |-> 0, ddF_y |-> -2 * radius,
                   x |-> 0, y |-> radius]

\* if (f >= 0) { y--; ddF_y += 2; f += ddF_y; }  x++; ddF_x += 2; f += ddF_x + 1;
DriverStep(d) ==
    LET dec == d.f >= 0
        y == IF dec THEN d.y - 1 ELSE d.y
        ddF_y == IF dec THEN d.ddF_y + 2 ELSE d.ddF_y
        f1 == IF dec THEN d.f + ddF_y ELSE d.f
        ddF_x == d.ddF_x + 2
    IN [f |-> f1 + ddF_x + 1, ddF_x |-> ddF_x, ddF_y |-> ddF_y, x |-> d.x + 1, y |-> y]

\* The inner driver, at radius - thickness: i_y, i_f, i_ddF_x, i_ddF_y.
InnerDriver(i_y) == [f |-> 1 - i_y, ddF_x |-> 0, ddF_y |-> -2 * i_y, x |-> 0, y |-> i_y]

RECURSIVE vspan2_inclusive(_, _, _, _, _)
\* The two spans with their end included: y1 <= to.
vspan2_inclusive(st, xa, xb, from, to) ==
    IF st.hang \/ ~(from <= to) THEN st
    ELSE vspan2_inclusive(set_at(set_at(st, xa, from), xb, from), xa, xb, from + 1, to)

RECURSIVE vspan2(_, _, _, _, _)
\* for (y1 = from; y1 < to; y1++) { set_at(xa, y1); set_at(xb, y1); }
vspan2(st, xa, xb, from, to) ==
    IF st.hang \/ ~(from < to) THEN st
    ELSE vspan2(set_at(set_at(st, xa, from), xb, from), xa, xb, from + 1, to)

RECURSIVE vspan(_, _, _, _)
\* for (y1 = from; y1 < to; y1++) set_at(x, y1);
vspan(st, x, from, to) ==
    IF st.hang \/ ~(from < to) THEN st ELSE vspan(set_at(st, x, from), x, from + 1, to)

RECURSIVE draw_circle_filled_loop(_, _, _, _)
draw_circle_filled_loop(st, x0, y0, d) ==
    IF st.hang \/ ~(d.x < d.y) THEN st
    ELSE LET n == DriverStep(d)
         IN draw_circle_filled_loop(
                vspan2(vspan2(st, x0 + n.y - 1, x0 - n.y, y0 - n.x, y0 + n.x),
                       x0 + n.x - 1, x0 - n.x, y0 - n.y, y0 + n.y),
                x0, y0, n)

\* The filled circle with the driver started one pixel inside the radius.
draw_circle_filled_inner(st, x0, y0, radius) ==
    draw_circle_filled_loop(st, x0, y0, Driver(radius - 1))

draw_circle_filled(st, x0, y0, radius) ==
    draw_circle_filled_loop(st, x0, y0, Driver(radius))

\* The eight octant pixels around (x0, y0) without the corrections of -1 in
\* the positive directions.
OctantPixelsCentred(st, x0, y0, x, y1) ==
    LET a == (y0 + y1) >= (y0 + x)
        b == (y0 - y1) <= (y0 - x)
        c == (x0 + y1) >= (x0 + x)
        d == (x0 - y1) <= (x0 - x)
    IN SetIf(SetIf(SetIf(SetIf(SetIf(SetIf(SetIf(SetIf(st,
           a, x0 + x, y0 + y1), a, x0 - x, y0 + y1),
           b, x0 + x, y0 - y1), b, x0 - x, y0 - y1),
           c, x0 + y1, y0 + x), c, x0 + y1, y0 - x),
           d, x0 - y1, y0 + x), d, x0 - y1, y0 - x)

\* The eight octant pixels of draw_circle_bresenham at (x, y1).
OctantPixels(st, x0, y0, x, y1) ==
    LET a == (y0 + y1 - 1) >= (y0 + x - 1)
        b == (y0 - y1) <= (y0 - x)
        c == (x0 + y1 - 1) >= (x0 + x - 1)
        d == (x0 - y1) <= (x0 - x)
    IN SetIf(SetIf(SetIf(SetIf(SetIf(SetIf(SetIf(SetIf(st,
           a, x0 + x - 1, y0 + y1 - 1), a, x0 - x, y0 + y1 - 1),
           b, x0 + x - 1, y0 - y1), b, x0 - x, y0 - y1),
           c, x0 + y1 - 1, y0 + x - 1), c, x0 + y1 - 1, y0 - x),
           d, x0 - y1, y0 + x - 1), d, x0 - y1, y0 - x)

RECURSIVE bresenham_band(_, _, _, _, _, _, _)
\* for (i = 0; i < thickness; i++) { y1 = y - i; ... }
bresenham_band(st, x0, y0, x, y, thickness, i) ==
    IF st.hang \/ ~(i < thickness) THEN st
    ELSE bresenham_band(OctantPixels(st, x0, y0, x, y - i), x0, y0, x, y, thickness, i + 1)

RECURSIVE draw_circle_bresenham_loop(_, _, _, _, _, _)
draw_circle_bresenham_loop(st, x0, y0, d, in, thickness) ==
    IF st.hang \/ ~(d.x < d.y) THEN st
    ELSE LET n == DriverStep(d)
             ni == DriverStep(in)
             t == IF thickness > 1 THEN n.y - ni.y ELSE thickness
         IN draw_circle_bresenham_loop(bresenham_band(st, x0, y0, n.x, n.y, t, 0),
                                       x0, y0, n, ni, t)

draw_circle_bresenham(st, x0, y0, radius, thickness) ==
    draw_circle_bresenham_loop(st, x0, y0, Driver(radius),
                               InnerDriver(radius - thickness), thickness)

\* The quadrant flags of draw_circle_quadrant: <<top_right, top_left,
\* bottom_left, bottom_right>>.
RECURSIVE quadrant_band(_, _, _, _, _, _, _, _)
\* One quadrant's for (i = 0; i < thickness; i++) loop; q is 1 .. 4 in the
\* order of the flags.
quadrant_band(st, x0, y0, x, y, thickness, i, q) ==
    IF st.hang \/ ~(i < thickness) THEN st
    ELSE LET y1 == y - i
         IN quadrant_band(
                 CASE q = 1 ->
                         SetIf(SetIf(st, (y0 - y1) < (y0 - x), x0 + x - 1, y0 - y1),
                               (x0 + y1 - 1) >= (x0 + x - 1), x0 + y1 - 1, y0 - x)
                      [] q = 2 ->
                         SetIf(SetIf(st, (y0 - y1) <= (y0 - x), x0 - x, y0 - y1),
                               (x0 - y1) < (x0 - x), x0 - y1, y0 - x)
                      [] q = 3 ->
                         SetIf(SetIf(st, (x0 - y1) <= (x0 - x), x0 - y1, y0 + x - 1),
                               (y0 + y1 - 1) > (y0 + x - 1), x0 - x, y0 + y1 - 1)
                      [] OTHER ->
                         SetIf(SetIf(st, (y0 + y1 - 1) >= (y0 + x - 1),
                                     x0 + x - 1, y0 + y1 - 1),
                               (x0 + y1 - 1) > (x0 + x - 1), x0 + y1 - 1, y0 + x - 1),
                 x0, y0, x, y, thickness, i + 1, q)

\* The four flagged bands of one pass, in the order of the code.
QuadrantBand(st, x0, y0, x, y, thickness, flags, q) ==
    IF flags[q] > 0 THEN quadrant_band(st, x0, y0, x, y, thickness, 0, q) ELSE st

QuadrantBands(st, x0, y0, x, y, thickness, flags) ==
    QuadrantBand(
        QuadrantBand(
            QuadrantBand(
                QuadrantBand(st, x0, y0, x, y, thickness, flags, 1),
                x0, y0, x, y, thickness, flags, 2),
            x0, y0, x, y, thickness, flags, 3),
        x0, y0, x, y, thickness, flags, 4)

RECURSIVE draw_circle_quadrant_fixed(_, _, _, _, _, _, _)
\* The passes with the thickness argument for the height of every band.
draw_circle_quadrant_fixed(st, x0, y0, d, in, thickness, flags) ==
    IF st.hang \/ ~(d.x < d.y) THEN st
    ELSE draw_circle_quadrant_fixed(
             QuadrantBands(st, x0, y0, DriverStep(d).x, DriverStep(d).y, thickness, flags),
             x0, y0, DriverStep(d), DriverStep(in), thickness, flags)

RECURSIVE draw_circle_quadrant_thick(_, _, _, _, _, _, _)
draw_circle_quadrant_thick(st, x0, y0, d, in, thickness, flags) ==
    IF st.hang \/ ~(d.x < d.y) THEN st
    ELSE LET n == DriverStep(d)
             ni == DriverStep(in)
             t == IF thickness > 1 THEN n.y - ni.y ELSE thickness
         IN draw_circle_quadrant_thick(QuadrantBands(st, x0, y0, n.x, n.y, t, flags),
                                       x0, y0, n, ni, t, flags)

\* The solid quadrants of one pass (thickness 0).
\* One flagged quadrant's two for loops: the spans at xa and at xb.
QuadrantSpan(st, flag, xa, froma, toa, xb, fromb, tob) ==
    IF flag > 0 THEN vspan(vspan(st, xa, froma, toa), xb, fromb, tob) ELSE st

QuadrantSpans(st, x0, y0, x, y, flags) ==
    QuadrantSpan(
        QuadrantSpan(
            QuadrantSpan(
                QuadrantSpan(st, flags[1], x0 + y - 1, y0 - x, y0 + 1,
                             x0 + x - 1, y0 - y, y0 + 1),
                flags[2], x0 - y, y0 - x, y0 + 1, x0 - x, y0 - y, y0 + 1),
            flags[3], x0 - y, y0, y0 + x, x0 - x, y0, y0 + y),
        flags[4], x0 + y - 1, y0, y0 + x, x0 + x - 1, y0, y0 + y)

RECURSIVE draw_circle_quadrant_solid(_, _, _, _, _)
draw_circle_quadrant_solid(st, x0, y0, d, flags) ==
    IF st.hang \/ ~(d.x < d.y) THEN st
    ELSE LET n == DriverStep(d)
         IN draw_circle_quadrant_solid(QuadrantSpans(st, x0, y0, n.x, n.y, flags),
                                       x0, y0, n, flags)

draw_circle_quadrant(st, x0, y0, radius, thickness, flags) ==
    IF radius = 1
    THEN SetIf(SetIf(SetIf(SetIf(st, flags[1] > 0, x0, y0 - 1),
                           flags[2] > 0, x0 - 1, y0 - 1),
                     flags[3] > 0, x0 - 1, y0),
               flags[4] > 0, x0, y0)
    ELSE IF thickness # 0
         THEN draw_circle_quadrant_thick(st, x0, y0, Driver(radius),
                                         InnerDriver(radius - thickness), thickness, flags)
    ELSE draw_circle_quadrant_solid(st, x0, y0, Driver(radius), flags)

(***************************************************************************)
(* draw_ellipse: midpoint ellipse with x64 fixed-point accumulators.       *)
(***************************************************************************)
\* One accepted row pair: two horizontal spans when solid, else the four
\* symmetric pixels.
EllipseRow(st, xl, xr, ya, yb, solid) ==
    IF solid # 0
    THEN draw_line(draw_line(st, xl, ya, xr, ya), xl, yb, xr, yb)
    ELSE set_at(set_at(set_at(set_at(st, xl, ya), xr, ya), xl, yb), xr, yb)

\* The loop variables before the first pass.
EllipseVars(r) == [ix |-> 0, iy |-> r * 64, oh |-> 65535, oi |-> 65535,
                   oj |-> 65535, ok |-> 65535]

\* An accepted row pair is drawn, a rejected one is skipped.
RowIf(st, cond, xl, xr, ya, yb, solid) ==
    IF cond THEN EllipseRow(st, xl, xr, ya, yb, solid) ELSE st

RECURSIVE draw_ellipse_wide(_, _, _, _, _, _, _, _, _)
RECURSIVE draw_ellipse_tall(_, _, _, _, _, _, _, _, _)
RECURSIVE EllipseWhile(_, _, _, _, _, _, _, _, _, _, _, _)
\* } while (i > h): more is i > h, n the loop variables after the pass, and
\* stuck a pass that changed neither ix nor iy.
EllipseWhile(st, wide, x, y, rx, ry, xoff, yoff, solid, n, more, stuck) ==
    IF st.hang \/ ~more THEN st
    ELSE IF stuck THEN [st EXCEPT !.hang = TRUE]
    ELSE IF wide THEN draw_ellipse_wide(st, x, y, rx, ry, xoff, yoff, solid, n)
    ELSE draw_ellipse_tall(st, x, y, rx, ry, xoff, yoff, solid, n)

\* The do-while loop of the branch rx >= ry.
draw_ellipse_wide(st, x, y, rx, ry, xoff, yoff, solid, v) ==
    LET h == (v.ix + 8) \div 64
        i == (v.iy + 8) \div 64
        j == CDiv(h * ry, rx)
        k == CDiv(i * ry, rx)
        c1 == (v.ok # k /\ v.oj # k /\ k < ry) \/ solid = 0
        ok == IF c1 THEN k ELSE v.ok
        c2 == (v.oj # j /\ ok # j /\ k # j) \/ solid = 0
        oj == IF c2 THEN j ELSE v.oj
        ix == v.ix + CDiv(v.iy, rx)
        iy == v.iy - CDiv(ix, rx)
    IN EllipseWhile(
           RowIf(RowIf(st, c1, x - h, x + h - xoff, y - k - yoff, y + k, solid),
                 c2, x - i, x + i - xoff, y + j, y - j - yoff, solid),
           TRUE, x, y, rx, ry, xoff, yoff, solid,
           [v EXCEPT !.ix = ix, !.iy = iy, !.ok = ok, !.oj = oj],
           i > h, ix = v.ix /\ iy = v.iy)

\* The do-while loop of the branch rx < ry.
draw_ellipse_tall(st, x, y, rx, ry, xoff, yoff, solid, v) ==
    LET h == (v.ix + 8) \div 64
        i == (v.iy + 8) \div 64
        j == CDiv(h * rx, ry)
        k == CDiv(i * rx, ry)
        c1 == (v.oi # i /\ v.oh # i /\ i < ry) \/ solid = 0
        oi == IF c1 THEN i ELSE v.oi
        c2 == (v.oh # h /\ oi # h /\ i # h) \/ solid = 0
        oh == IF c2 THEN h ELSE v.oh
        ix == v.ix + CDiv(v.iy, ry)
        iy == v.iy - CDiv(ix, ry)
    IN EllipseWhile(
           RowIf(RowIf(st, c1, x - j, x + j - xoff, y + i, y - i - yoff, solid),
                 c2, x - k, x + k - xoff, y + h, y - h - yoff, solid),
           FALSE, x, y, rx, ry, xoff, yoff, solid,
           [v EXCEPT !.ix = ix, !.iy = iy, !.oi = oi, !.oh = oh],
           i > h, ix = v.ix /\ iy = v.iy)

\* The ellipse with ry lowered by yoff alone, for the filled one too.
draw_ellipse_unadjusted(st, x, y, width, height, solid) ==
    LET xoff == 1 - (width % 2)
        yoff == 1 - (height % 2)
        rx == width \div 2
        ry0 == height \div 2
        ry == ry0 - yoff
    IN IF rx = 0 /\ ry0 = 0 THEN set_at(st, x, y)
       ELSE IF rx = 0 THEN draw_line(st, x, y - ry0, x, y + ry0 + (height % 2))
       ELSE IF ry0 = 0 THEN draw_line(st, x - rx, y, x + rx + (width % 2), y)
       ELSE IF rx >= ry
            THEN draw_ellipse_wide(st, x, y, rx, ry, xoff, yoff, solid, EllipseVars(rx))
       ELSE draw_ellipse_tall(st, x, y, rx, ry, xoff, yoff, solid, EllipseVars(ry))

\* width & 1, and width >> 1 (an arithmetic shift).
draw_ellipse(st, x, y, width, height, solid) ==
    LET xoff == 1 - (width % 2)
        yoff == 1 - (height % 2)
        rx == width \div 2
        ry0 == height \div 2
        ry == ry0 + (solid % 2) - yoff
    IN IF rx = 0 /\ ry0 = 0 THEN set_at(st, x, y)
       ELSE IF rx = 0 THEN draw_line(st, x, y - ry0, x, y + ry0 + (height % 2))
       ELSE IF ry0 = 0 THEN draw_line(st, x - rx, y, x + rx + (width % 2), y)
       ELSE IF rx >= ry
            THEN draw_ellipse_wide(st, x, y, rx, ry, xoff, yoff, solid, EllipseVars(rx))
       ELSE draw_ellipse_tall(st, x, y, rx, ry, xoff, yoff, solid, EllipseVars(ry))

(***************************************************************************)
(* draw_fillpoly: even-odd scanline fill.                                  *)
(***************************************************************************)
\* Insert v into the ascending sequence s.
Insert(s, v) ==
    LET k == Cardinality({i \in 1 .. Len(s) : s[i] <= v})
    IN SubSeq(s, 1, k) \o <<v>> \o SubSeq(s, k + 1, Len(s))

RECURSIVE qsort(_)
\* qsort with compare_int.
qsort(s) == IF s = <<>> THEN s ELSE Insert(qsort(Tail(s)), Head(s))

RECURSIVE SeqMin(_)
SeqMin(s) == IF Len(s) = 1 THEN s[1] ELSE MIN(s[1], SeqMin(Tail(s)))

RECURSIVE SeqMax(_)
SeqMax(s) == IF Len(s) = 1 THEN s[1] ELSE MAX(s[1], SeqMax(Tail(s)))

\* i_previous, for indices 1 .. n.
Previous(i, n) == IF i = 1 THEN n ELSE i - 1

\* The intersection with the lower end of every edge excluded, on the lowest
\* scanline too.
EdgeIntersectOpen(px, py, i, y, maxy) ==
    LET ip == Previous(i, Len(px))
        up == py[ip] < py[i]
        y1 == IF up THEN py[ip] ELSE py[i]
        y2 == IF up THEN py[i] ELSE py[ip]
        x1 == IF up THEN px[ip] ELSE px[i]
        x2 == IF up THEN px[i] ELSE px[ip]
    IN IF py[ip] = py[i] THEN <<>>
       ELSE IF y >= y1 /\ y < y2
            THEN <<CDiv((y - y1) * (x2 - x1), y2 - y1) + x1>>
       ELSE <<>>

\* The intersection with both ends of every edge included.
EdgeIntersectClosed(px, py, i, y, maxy) ==
    LET ip == Previous(i, Len(px))
        up == py[ip] < py[i]
        y1 == IF up THEN py[ip] ELSE py[i]
        y2 == IF up THEN py[i] ELSE py[ip]
        x1 == IF up THEN px[ip] ELSE px[i]
        x2 == IF up THEN px[i] ELSE px[ip]
    IN IF py[ip] = py[i] THEN <<>>
       ELSE IF y >= y1 /\ y <= y2
            THEN <<CDiv((y - y1) * (x2 - x1), y2 - y1) + x1>>
       ELSE <<>>

\* The x at which scanline y meets the edge (i_previous, i): <<x>>, or <<>>
\* when the edge is horizontal or the scanline does not meet it.
EdgeIntersect(px, py, i, y, maxy) ==
    LET ip == Previous(i, Len(px))
        up == py[ip] < py[i]
        y1 == IF up THEN py[ip] ELSE py[i]
        y2 == IF up THEN py[i] ELSE py[ip]
        x1 == IF up THEN px[ip] ELSE px[i]
        x2 == IF up THEN px[i] ELSE px[ip]
    IN IF py[ip] = py[i] THEN <<>>
       ELSE IF (y >= y1 /\ y < y2) \/ (y = maxy /\ y2 = maxy)
            THEN <<CDiv((y - y1) * (x2 - x1), y2 - y1) + x1>>
       ELSE <<>>

RECURSIVE x_intersections(_, _, _, _, _)
\* The values the inner for loop stores in x_intersect[0 .. n_intersections).
x_intersections(px, py, i, y, maxy) ==
    IF i > Len(px) THEN <<>>
    ELSE EdgeIntersect(px, py, i, y, maxy) \o x_intersections(px, py, i + 1, y, maxy)

RECURSIVE fillpoly_pairs(_, _, _, _, _)
\* for (i = 0; i < n_intersections; i += 2) draw_line(x_intersect[i], y,
\* x_intersect[i + 1], y).  xi is the initialised prefix of x_intersect: an
\* index beyond it reads memory the call never wrote.
fillpoly_pairs(st, xi, k, i, y) ==
    IF st.hang \/ ~(i < k) THEN st
    ELSE IF i + 2 > Len(xi) THEN [st EXCEPT !.ub = TRUE]
    ELSE fillpoly_pairs(draw_line(st, xi[i + 1], y, xi[i + 2], y), xi, k, i + 2, y)

RECURSIVE fillpoly_scan(_, _, _, _, _, _)
\* One scanline with its sorted intersections: draw the pairs and go on
\* to the next; found overwrites the front of x_intersect.
fillpoly_row(st, xi, found, px, py, y, maxy) ==
    fillpoly_scan(fillpoly_pairs(st, found \o SubSeq(xi, Len(found) + 1, Len(xi)),
                                 Len(found), 0, y),
                  found \o SubSeq(xi, Len(found) + 1, Len(xi)), px, py, y + 1, maxy)

\* for (y = miny; y <= maxy; y++): collect, sort, draw the pairs.
fillpoly_scan(st, xi, px, py, y, maxy) ==
    IF st.hang \/ y > maxy THEN st
    ELSE fillpoly_row(st, xi, qsort(x_intersections(px, py, 1, y, maxy)),
                      px, py, y, maxy)

RECURSIVE fillpoly_fixup(_, _, _, _, _, _)
\* The final loop over the horizontal border lines strictly between miny and maxy.
fillpoly_fixup(st, px, py, i, miny, maxy) ==
    IF st.hang \/ i > Len(px) THEN st
    ELSE LET ip == Previous(i, Len(px))
             y == py[i]
         IN fillpoly_fixup(LineIf(st, miny < y /\ py[ip] = y /\ y < maxy,
                                  <<px[i], y, px[ip], y>>),
                           px, py, i + 1, miny, maxy)

\* The fill that goes on to scan after a failed allocation.
draw_fillpoly_unchecked(st, px, py, xintOk) ==
    LET s0 == Alloc(st, 3, xintOk)
        miny == SeqMin(py)
        maxy == SeqMax(py)
    IN IF miny = maxy
       THEN Free(draw_line(s0, SeqMin(px), miny, SeqMax(px), miny), 3)
       ELSE Free(fillpoly_fixup(fillpoly_scan(s0, <<>>, px, py, miny, maxy),
                                px, py, 1, miny, maxy), 3)

draw_fillpoly(st, px, py, xintOk) ==
    LET s0 == Alloc(st, 3, xintOk)
        miny == SeqMin(py)
        maxy == SeqMax(py)
    IN IF ~xintOk THEN [s0 EXCEPT !.pyerr = "MemoryError"]
       ELSE IF miny = maxy
            THEN Free(draw_line(s0, SeqMin(px), miny, SeqMax(px), miny), 3)
       ELSE Free(fillpoly_fixup(fillpoly_scan(s0, <<>>, px, py, miny, maxy),
                                px, py, 1, miny, maxy), 3)

(***************************************************************************)
(* draw_round_rect.  The float quotients are modelled exactly: a quotient  *)
(* is n/d, with d = 0 standing for an infinity (n # 0) or a NaN (n = 0).   *)
(***************************************************************************)
Quot(n, d) == IF d < 0 THEN [n |-> -n, d |-> -d] ELSE [n |-> n, d |-> d]

IsNaN(q) == q.n = 0 /\ q.d = 0

\* The C comparison a < b on floats: FALSE when either is a NaN.
FLess(a, b) ==
    IF IsNaN(a) \/ IsNaN(b) THEN FALSE
    ELSE IF a.d = 0 /\ b.d = 0 THEN a.n < b.n
    ELSE a.n * b.d < b.n * a.d

\* The macro MIN on floats.
FMIN(a, b) == IF FLess(a, b) THEN a ELSE b

\* r * f is finite: (int)(r * f) is defined.
ScaleDefined(r, f) == f.d # 0

\* (int)(r * f), the conversion truncating toward zero.
Scale(r, f) == CDiv(r * f.n, f.d)

\* The corner radii <<top_left, top_right, bottom_left, bottom_right>> after
\* the defaults and the scaling step; ub when a conversion is undefined, and
\* the radius is then u, whatever the build makes of the conversion.
ClampRadii(w, h, radius, corners, u) ==
    LET tl == IF corners[1] < 0 THEN radius ELSE corners[1]
        tr == IF corners[2] < 0 THEN radius ELSE corners[2]
        bl == IF corners[3] < 0 THEN radius ELSE corners[3]
        br == IF corners[4] < 0 THEN radius ELSE corners[4]
        f == FMIN(FMIN(FMIN(Quot(w, tl + tr), Quot(h, tl + bl)), Quot(w, bl + br)),
                  Quot(h, tr + br))
        sc(r) == IF ScaleDefined(r, f) THEN Scale(r, f) ELSE u
    IN IF tl + tr > w \/ bl + br > w \/ tl + bl > h \/ tr + br > h
       THEN [r |-> <<sc(tl), sc(tr), sc(bl), sc(br)>>, ub |-> f.d = 0]
       ELSE [r |-> <<tl, tr, bl, br>>, ub |-> FALSE]

RECURSIVE gap_fill(_, _, _, _, _, _, _)
\* for (i = 0; i < width; i++) set_at(x + dx * i, y + dy * i): the patch
\* drawn when the radii leave a side no length.
gap_fill(st, x, y, dx, dy, i, width) ==
    IF st.hang \/ ~(i < width) THEN st
    ELSE gap_fill(set_at(st, x + dx * i, y + dy * i), x, y, dx, dy, i + 1, width)

\* The four corner quadrants, in the order of the code.
RoundCorners(st, x1, y1, x2, y2, r, thickness) ==
    draw_circle_quadrant(
        draw_circle_quadrant(
            draw_circle_quadrant(
                draw_circle_quadrant(st, x2 - r[2] + 1, y1 + r[2], r[2], thickness,
                                     <<1, 0, 0, 0>>),
                x1 + r[1], y1 + r[1], r[1], thickness, <<0, 1, 0, 0>>),
            x1 + r[3], y2 - r[3] + 1, r[3], thickness, <<0, 0, 1, 0>>),
        x2 - r[4] + 1, y2 - r[4] + 1, r[4], thickness, <<0, 0, 0, 1>>)

\* One straight side, pts: the patch from (gx, gy) when the radii leave the
\* side no length, else the thick line.
RoundSide(st, pts, flat, gx, gy, dx, dy, width) ==
    IF (IF flat THEN pts[3] = pts[1] ELSE pts[4] = pts[2])
    THEN gap_fill(st, gx, gy, dx, dy, 0, width)
    ELSE draw_line_width(st, width, pts)

\* The top, left, bottom and right sides of the outline, in the order of the
\* code; half is width / 2 and lo is width / 2 - 1 + width % 2.
RoundSides(st, x1, y1, x2, y2, r, width, half, lo) ==
    RoundSide(
        RoundSide(
            RoundSide(
                RoundSide(st, <<x1 + r[1], y1 + lo, x2 - r[2], y1 + lo>>, TRUE,
                          x1 + r[1], y1, 0, 1, width),
                <<x1 + lo, y1 + r[1], x1 + lo, y2 - r[3]>>, FALSE,
                x1, y1 + r[1], 1, 0, width),
            <<x1 + r[3], y2 - half, x2 - r[4], y2 - half>>, TRUE,
            x1 + r[3], y2, 0, -1, width),
        <<x2 - half, y1 + r[2], x2 - half, y2 - r[4]>>, FALSE,
        x2, y1 + r[2], -1, 0, width)

\* The interior filled to the four corners of the rect when width is 0.
RoundInteriorSquare(st, x1, y1, x2, y2, r, width, xintOk) ==
    IF width = 0
    THEN draw_fillpoly(st, <<x1, x2, x2, x1>>, <<y1, y1, y2, y2>>, xintOk)
    ELSE RoundSides(st, x1, y1, x2, y2, r, width, CDiv(width, 2),
                    CDiv(width, 2) - 1 + CMod(width, 2))

\* The filled octagon between the corners when width is 0, else the four sides.
RoundInterior(st, x1, y1, x2, y2, r, width, xintOk) ==
    IF width = 0
    THEN draw_fillpoly(st,
             <<x1, x1 + r[1], x2 - r[2], x2, x2, x2 - r[4], x1 + r[3], x1>>,
             <<y1 + r[1], y1, y1, y1 + r[2], y2 - r[4], y2, y2, y2 - r[3]>>,
             xintOk)
    ELSE RoundSides(st, x1, y1, x2, y2, r, width, CDiv(width, 2),
                    CDiv(width, 2) - 1 + CMod(width, 2))

\* draw_round_rect once the radii r are settled: the interior or the sides,
\* then the four corners with width for their thickness.
RoundRectBody(st, x1, y1, x2, y2, r, width, xintOk) ==
    IF \E i \in 1 .. 4 : r[i] = INT_MIN
    THEN st  \* 1 - radius overflows in draw_circle_quadrant: undefined
    ELSE RoundCorners(RoundInterior(st, x1, y1, x2, y2, r, width, xintOk),
                      x1, y1, x2, y2, r, width)

draw_round_rect(st, x1, y1, x2, y2, radius, width, corners, u, xintOk) ==
    LET cl == ClampRadii(x2 - x1 + 1, y2 - y1 + 1, radius, corners, u)
    IN RoundRectBody(IF cl.ub THEN [st EXCEPT !.ub = TRUE] ELSE st,
                     x1, y1, x2, y2, cl.r, width, xintOk)

(***************************************************************************)
(* draw_arc.  The loop visits the angles angle_start, angle_start + aStep, *)
(* ... up to angle_stop; the model is given the angles it visits as the    *)
(* sequence sweep, each angle a multiple of pi / 4, with cos and sin taken *)
(* to three decimals.                                                      *)
(***************************************************************************)
Cos(a) == <<1000, 707, 0, -707, -1000, -707, 0, 707>>[(a % 8) + 1]

Sin(a) == Cos(a + 6)

\* (int)(x + cos(a) * radius1)
ArcX(x, radius1, a) == CDiv(x * 1000 + Cos(a) * radius1, 1000)

\* (int)(y - sin(a) * radius2)
ArcY(y, radius2, a) == CDiv(y * 1000 - Sin(a) * radius2, 1000)

\* aStep = asin(2.0 / radius) is a NaN when the smaller radius is 1: no
\* angle a then satisfies a <= angle_stop.
StepIsNaN(radius1, radius2) == MIN(radius1, radius2) = 1

RECURSIVE draw_arc_loop(_, _, _, _, _, _, _)
\* for (a = angle_start + aStep; a <= angle_stop; a += aStep) draw_line(last, next)
draw_arc_loop(st, x, y, radius1, radius2, sweep, i) ==
    IF st.hang \/ i > Len(sweep) THEN st
    ELSE draw_arc_loop(draw_line(st, ArcX(x, radius1, sweep[i - 1]),
                                 ArcY(y, radius2, sweep[i - 1]),
                                 ArcX(x, radius1, sweep[i]),
                                 ArcY(y, radius2, sweep[i])),
                       x, y, radius1, radius2, sweep, i + 1)

draw_arc(st, x, y, radius1, radius2, sweep) ==
    IF st.hang \/ StepIsNaN(radius1, radius2) THEN st
    ELSE draw_arc_loop(st, x, y, radius1, radius2, sweep, 2)

(***************************************************************************)
(* draw_aaline.  A float is modelled in fixed point, as the integer        *)
(* Fix * value; the inputs are chosen so that every quotient is exact.     *)
(***************************************************************************)
Fix == 16

\* (int) f
Trunc(f) == CDiv(f, Fix)

\* The sampler without its clip test: with blend, the pixel is read.
get_antialiased_color_unchecked(st, x, y, blend) ==
    IF blend # 0 THEN Emit(st, Ev("get_at", x, y, TRUE)) ELSE st

\* get_antialiased_color: with blend, a pixel inside the clip rect is read.
get_antialiased_color(st, x, y, blend) ==
    IF blend # 0 /\ ~OutsideClip(st.clip, x, y)
    THEN Emit(st, Ev("get_at", x, y, TRUE))
    ELSE st

\* One get_antialiased_color, set_at pair; major is x, minor the truncated
\* intersect_y, exchanged when the line is steep.
aa_plot(st, steep, major, minor, blend) ==
    IF steep
    THEN set_at(get_antialiased_color(st, minor, major, blend), minor, major)
    ELSE set_at(get_antialiased_color(st, major, minor, blend), major, minor)

\* The second pixel of a column, drawn when cond holds.
PlotIf(st, cond, steep, major, minor, blend) ==
    IF cond THEN aa_plot(st, steep, major, minor, blend) ELSE st

RECURSIVE draw_aaline_loop(_, _, _, _, _, _, _, _, _)
\* for (x = x_pixel_start; x <= x_pixel_end; x++)
draw_aaline_loop(st, steep, x, x_pixel_end, intersect_y, gradient, from_y, to_y, blend) ==
    IF st.hang \/ x > x_pixel_end THEN st
    ELSE LET iy == Trunc(intersect_y)
         IN draw_aaline_loop(
                PlotIf(aa_plot(st, steep, x, iy, blend),
                       iy * Fix < to_y \/ (x = x_pixel_end /\ from_y # to_y),
                       steep, x, iy + 1, blend),
                steep, x + 1, x_pixel_end, intersect_y + gradient, gradient,
                from_y, to_y, blend)

\* The endpoints <<from_x, from_y, to_x, to_y>> after the two swaps.
AAOrder(fx, fy, tx, ty) ==
    LET steep == abs(tx - fx) < abs(ty - fy)
        a == IF steep THEN <<fy, fx, ty, tx>> ELSE <<fx, fy, tx, ty>>
    IN IF a[1] > a[3] THEN <<a[3], a[4], a[1], a[2]>> ELSE a

draw_aaline(st, fx, fy, tx, ty, blend) ==
    LET steep == abs(tx - fx) < abs(ty - fy)
        p == AAOrder(fx, fy, tx, ty)
        dx == p[3] - p[1]
        dy == p[4] - p[2]
        gradient == IF dx = 0 THEN Fix ELSE CDiv(dy * Fix, dx)
        intersect_y == p[2] + CDiv(gradient * (Trunc(p[1]) * Fix + Fix \div 2 - p[1]), Fix)
    IN draw_aaline_loop(st, steep, Trunc(p[1]), Trunc(p[3]), intersect_y, gradient,
                        p[2], p[4], blend)

(***************************************************************************)
(* The Python-level primitives.  Each returns [st, ret]: the drawing state *)
(* at the return and the returned value.  env holds what the environment   *)
(* decides: whether lock, unlock and each allocation succeed.              *)
(***************************************************************************)
Out(st, r) == [st |-> st, ret |-> r]

\* The call starts to draw with the local variable width holding w.
Stroke(st, w) == [st EXCEPT !.stroke = w]

\* return RAISE(exc, ...): the error indicator is set and NULL is returned.
Fail(st, e) == Out([st EXCEPT !.pyerr = e], Raise(e))

\* The Rect with max - min for its size, one less than the pixels spanned.
ReturnRectSpan(da, ax, ay) ==
    IF da[1] # INT_MAX /\ da[2] # INT_MAX /\ da[3] # INT_MIN /\ da[4] # INT_MIN
    THEN Rect(da[1], da[2], da[3] - da[1], da[4] - da[2])
    ELSE Rect(ax, ay, 0, 0)

\* The Rect every primitive assembles from the accumulator, or the
\* zero-size Rect at the anchor (ax, ay) when the accumulator is empty.
ReturnRect(da, ax, ay) ==
    IF da[1] # INT_MAX /\ da[2] # INT_MAX /\ da[3] # INT_MIN /\ da[4] # INT_MIN
    THEN Rect(da[1], da[2], da[3] - da[1] + 1, da[4] - da[2] + 1)
    ELSE Rect(ax, ay, 0, 0)

\* The common tail of the primitives: a loop of the call cannot end and
\* nothing is returned, or the unlock failed and the call raises, or the
\* Rect is returned with (ax, ay) for its anchor.
Finish(st, unlocked, ax, ay) ==
    IF st.hang THEN Out(st, NoRet)
    ELSE IF ~unlocked THEN Fail(st, "RuntimeError")
    ELSE Out(st, ReturnRect(st.da, ax, ay))

\* A line that returns early only for a negative width.
LineSkippedNegative(width) == width < 0

\* if (width < 1) return the zero-size Rect
LineSkipped(width) == width < 1

line(c, start, end, width, env) ==
    IF LineSkipped(width) THEN Out(NewState(c), Rect(start[1], start[2], 0, 0))
    ELSE IF ~env.lock THEN Fail(Lock(NewState(c), FALSE), "RuntimeError")
    ELSE Finish(Unlock(draw_line_width(Stroke(Lock(NewState(c), TRUE), width), width,
                                       <<start[1], start[2], end[1], end[2]>>),
                       env.unlock),
                env.unlock, start[1], start[2])

(***************************************************************************)
(* lines and polygon.  A point of the points argument is <<x, y, ok>>; ok  *)
(* is FALSE for an item that is not a pair of numbers.                     *)
(***************************************************************************)
Xs(points) == [i \in 1 .. Len(points) |-> points[i][1]]

Ys(points) == [i \in 1 .. Len(points) |-> points[i][2]]

Malformed(points) == \E i \in 1 .. Len(points) : ~points[i][3]

\* PyMem_Del(xlist); PyMem_Del(ylist): PyMem_Del(NULL) does nothing.
FreeLists(st) == Free(Free(st, 1), 2)

RECURSIVE lines_loop(_, _, _, _)
\* for (loop = 1; loop < length; ++loop) draw_line_width(loop - 1 .. loop)
lines_loop(st, width, points, loop) ==
    IF st.hang \/ ~(loop < Len(points)) THEN st
    ELSE lines_loop(draw_line_width(st, width,
                        <<points[loop][1], points[loop][2],
                          points[loop + 1][1], points[loop + 1][2]>>),
                    width, points, loop + 1)

\* The closing segment, from the last point to the first.
CloseLines(st, cond, width, points) ==
    IF cond
    THEN draw_line_width(st, width, <<points[Len(points)][1], points[Len(points)][2],
                                      points[1][1], points[1][2]>>)
    ELSE st

\* xlist and ylist after the two PyMem_New.
NewLists(c, env) == Alloc(Alloc(NewState(c), 1, env.xlist), 2, env.ylist)

lines(c, closed, points, width, env) ==
    IF Len(points) < 2 THEN Fail(NewState(c), "ValueError")
    ELSE IF ~env.xlist \/ ~env.ylist THEN Fail(NewLists(c, env), "MemoryError")
    ELSE IF Malformed(points) THEN Fail(FreeLists(NewLists(c, env)), "TypeError")
    ELSE IF width < 1
         THEN Out(FreeLists(NewLists(c, env)), Rect(points[1][1], points[1][2], 0, 0))
    ELSE IF ~env.lock
         THEN Fail(FreeLists(Lock(NewLists(c, env), FALSE)), "RuntimeError")
    ELSE Finish(Unlock(FreeLists(CloseLines(
                           lines_loop(Stroke(Lock(NewLists(c, env), TRUE), width),
                                      width, points, 1),
                           closed /\ Len(points) > 2, width, points)),
                       env.unlock),
                env.unlock, points[1][1], points[1][2])

polygon(c, points, width, env) ==
    IF width # 0 THEN lines(c, TRUE, points, width, env)
    ELSE IF Len(points) < 3 THEN Fail(NewState(c), "ValueError")
    ELSE IF ~env.xlist \/ ~env.ylist THEN Fail(NewLists(c, env), "MemoryError")
    ELSE IF Malformed(points) THEN Fail(FreeLists(NewLists(c, env)), "TypeError")
    ELSE IF ~env.lock
         THEN Fail(FreeLists(Lock(NewLists(c, env), FALSE)), "RuntimeError")
    ELSE Finish(Unlock(FreeLists(draw_fillpoly(
                           Stroke(Lock(NewLists(c, env), TRUE), width),
                           Xs(points), Ys(points), env.xint)),
                       env.unlock),
                env.unlock, points[1][1], points[1][2])

(***************************************************************************)
(* circle, ellipse and rect.  A rect argument is <<x, y, w, h>>.           *)
(***************************************************************************)
\* The rasterizers with draw_circle_filled kept for a width of 0 alone.
CircleBodyOutline(st, pos, radius, width, quads) ==
    IF quads = <<0, 0, 0, 0>>
    THEN IF width = 0
         THEN draw_circle_filled(st, pos[1], pos[2], radius)
         ELSE draw_circle_bresenham(st, pos[1], pos[2], radius, width)
    ELSE draw_circle_quadrant(st, pos[1], pos[2], radius, width, quads)

\* The rasterizer circle selects.
CircleBody(st, pos, radius, width, quads) ==
    IF quads = <<0, 0, 0, 0>>
    THEN IF width = 0 \/ width = radius
         THEN draw_circle_filled(st, pos[1], pos[2], radius)
         ELSE draw_circle_bresenham(st, pos[1], pos[2], radius, width)
    ELSE draw_circle_quadrant(st, pos[1], pos[2], radius, width, quads)

circle(c, pos, radius, width0, quads, env) ==
    IF radius < 1 \/ width0 < 0 THEN Out(NewState(c), Rect(pos[1], pos[2], 0, 0))
    ELSE IF ~env.lock THEN Fail(Lock(NewState(c), FALSE), "RuntimeError")
    ELSE Finish(Unlock(CircleBody(Stroke(Lock(NewState(c), TRUE), MIN(width0, radius)),
                                  pos, radius, MIN(width0, radius), quads),
                       env.unlock),
                env.unlock, pos[1], pos[2])

\* if (width > rect->w / 2 || width > rect->h / 2) width = MAX(rect->w / 2, rect->h / 2);
ClampWidth(r, width) ==
    IF width > CDiv(r[3], 2) \/ width > CDiv(r[4], 2)
    THEN MAX(CDiv(r[3], 2), CDiv(r[4], 2))
    ELSE width

\* width = MIN(width, MIN(rect->w, rect->h) / 2);
OutlineWidth(r, width) == MIN(width, CDiv(MIN(r[3], r[4]), 2))

RECURSIVE ellipse_loop(_, _, _, _)
\* for (loop = 0; loop < width; ++loop) draw_ellipse(..., w - loop, h - loop, 0)
ellipse_loop(st, r, width, loop) ==
    IF st.hang \/ ~(loop < width) THEN st
    ELSE ellipse_loop(draw_ellipse(st, r[1] + CDiv(r[3], 2), r[2] + CDiv(r[4], 2),
                                   r[3] - loop, r[4] - loop, 0),
                      r, width, loop + 1)

\* The filled ellipse, or the width concentric outlines.
EllipseBody(st, r, width) ==
    IF width = 0
    THEN draw_ellipse(Stroke(st, width), r[1] + CDiv(r[3], 2), r[2] + CDiv(r[4], 2),
                      r[3], r[4], 1)
    ELSE ellipse_loop(Stroke(st, OutlineWidth(r, width)), r, OutlineWidth(r, width), 0)

ellipse(c, r, width0, env) ==
    IF width0 < 0 THEN Out(NewState(c), Rect(r[1], r[2], 0, 0))
    ELSE IF ~env.lock THEN Fail(Lock(NewState(c), FALSE), "RuntimeError")
    ELSE Finish(Unlock(EllipseBody(Lock(NewState(c), TRUE), r, ClampWidth(r, width0)),
                       env.unlock),
                env.unlock, r[1], r[2])

\* The corners with x + w and y + h for the right and the bottom.
CornersExclusive(r) ==
    LET l == r[1]
        rt == r[1] + r[3]
        t == r[2]
        b == r[2] + r[4]
    IN <<<<l, t, TRUE>>, <<rt, t, TRUE>>, <<rt, b, TRUE>>, <<l, b, TRUE>>>>

\* The four corners rect hands to polygon.
Corners(r) ==
    LET l == r[1]
        rt == r[1] + r[3] - 1
        t == r[2]
        b == r[2] + r[4] - 1
    IN <<<<l, t, TRUE>>, <<rt, t, TRUE>>, <<rt, b, TRUE>>, <<l, b, TRUE>>>>

\* radii is <<border_radius, top_left, top_right, bottom_left, bottom_right>>.
rect(c, r, width0, radii, env) ==
    IF width0 < 0 THEN Out(NewState(c), Rect(r[1], r[2], 0, 0))
    ELSE IF \A i \in 1 .. 5 : radii[i] <= 0
         THEN polygon(c, Corners(r), ClampWidth(r, width0), env)
    ELSE IF ~env.lock THEN Fail(Lock(NewState(c), FALSE), "RuntimeError")
    ELSE Finish(Unlock(draw_round_rect(
                           Stroke(Lock(NewState(c), TRUE), ClampWidth(r, width0)),
                           r[1], r[2], r[1] + r[3] - 1, r[2] + r[4] - 1, radii[1],
                           ClampWidth(r, width0), SubSeq(radii, 2, 5), env.ubint,
                           env.xint),
                       env.unlock),
                env.unlock, r[1], r[2])

(***************************************************************************)
(* arc, aaline and aalines.                                                *)
(***************************************************************************)
RECURSIVE arc_loop(_, _, _, _, _)
\* for (loop = 0; loop < width; ++loop) draw_arc(..., w / 2 - loop, h / 2 - loop, ...)
arc_loop(st, r, width, sweep, loop) ==
    IF st.hang \/ ~(loop < width) THEN st
    ELSE arc_loop(draw_arc(st, r[1] + CDiv(r[3], 2), r[2] + CDiv(r[4], 2),
                           CDiv(r[3], 2) - loop, CDiv(r[4], 2) - loop, sweep),
                  r, width, sweep, loop + 1)

arc(c, r, width0, sweep, env) ==
    IF width0 < 0 THEN Out(NewState(c), Rect(r[1], r[2], 0, 0))
    ELSE IF ~env.lock THEN Fail(Lock(NewState(c), FALSE), "RuntimeError")
    ELSE Finish(Unlock(arc_loop(Stroke(Lock(NewState(c), TRUE),
                                       OutlineWidth(r, ClampWidth(r, width0))),
                                r, OutlineWidth(r, ClampWidth(r, width0)), sweep, 0),
                       env.unlock),
                env.unlock, r[1], r[2])

\* start and end are <<x, y, ok>> in fixed point; ok is FALSE for an
\* argument that is no pair of numbers.
aaline(c, start, end, blend, env) ==
    IF ~start[3] \/ ~end[3] THEN Fail(NewState(c), "TypeError")
    ELSE IF ~env.lock THEN Fail(Lock(NewState(c), FALSE), "RuntimeError")
    ELSE Finish(Unlock(draw_aaline(Lock(NewState(c), TRUE), start[1], start[2],
                                   end[1], end[2], blend),
                       env.unlock),
                env.unlock, Trunc(start[1]), Trunc(start[2]))

RECURSIVE aalines_loop(_, _, _, _)
\* for (loop = 1; loop < length; ++loop) draw_aaline(loop - 1 .. loop)
aalines_loop(st, points, blend, loop) ==
    IF st.hang \/ ~(loop < Len(points)) THEN st
    ELSE aalines_loop(draw_aaline(st, points[loop][1], points[loop][2],
                                  points[loop + 1][1], points[loop + 1][2], blend),
                      points, blend, loop + 1)

\* The closing segment, from the last point to the first.
CloseAalines(st, cond, points, blend) ==
    IF cond
    THEN draw_aaline(st, points[Len(points)][1], points[Len(points)][2],
                     points[1][1], points[1][2], blend)
    ELSE st

aalines(c, closed, points, blend, env) ==
    IF Len(points) < 2 THEN Fail(NewState(c), "ValueError")
    ELSE IF ~env.xlist \/ ~env.ylist THEN Fail(NewLists(c, env), "MemoryError")
    ELSE IF Malformed(points) THEN Fail(FreeLists(NewLists(c, env)), "TypeError")
    ELSE IF ~env.lock
         THEN Fail(FreeLists(Lock(NewLists(c, env), FALSE)), "RuntimeError")
    ELSE Finish(Unlock(FreeLists(CloseAalines(
                           aalines_loop(Lock(NewLists(c, env), TRUE), points, blend, 1),
                           closed /\ Len(points) > 2, points, blend)),
                       env.unlock),
                env.unlock, Trunc(points[1][1]), Trunc(points[1][2]))

(***************************************************************************)
(* Inputs.                                                                 *)
(***************************************************************************)
Coord == -1 .. SurfW

Points == Coord \X Coord

\* The whole surface, and a clip rect strictly inside it.
ClipRects == {[x |-> 0, y |-> 0, w |-> SurfW, h |-> SurfH],
              [x |-> 1, y |-> 1, w |-> SurfW - 2, h |-> SurfH - 2]}

FullClip == [x |-> 0, y |-> 0, w |-> SurfW, h |-> SurfH]

Widths == -1 .. MaxWidth

\* What the environment can do to a call.
\* ubint is the int an undefined float-to-int conversion yields.
NoFault == [lock |-> TRUE, unlock |-> TRUE, xlist |-> TRUE, ylist |-> TRUE, xint |-> TRUE,
            ubint |-> INT_MIN]


\* Faults of the surface lock.
LockEnvs == {NoFault, [NoFault EXCEPT !.lock = FALSE], [NoFault EXCEPT !.unlock = FALSE]}

\* Faults of the coordinate buffers' allocation.
ListEnvs == {[NoFault EXCEPT !.xlist = FALSE], [NoFault EXCEPT !.ylist = FALSE]}

\* Fault of the polygon fill's allocation.
FillEnvs == {[NoFault EXCEPT !.xint = FALSE]}

(***************************************************************************)
(* The state machine.  A call starts from the idle state (no call in       *)
(* progress, a surface with nothing stored) and Return hands the result to *)
(* the caller, which leaves the module idle again.                         *)
(***************************************************************************)
\* The arguments of a call, with the defaults of the keyword arguments.
Args(op) == [op |-> op, points |-> <<>>, width |-> 0, closed |-> FALSE,
             rect |-> <<0, 0, 0, 0>>, radius |-> 0, quads |-> <<0, 0, 0, 0>>,
             radii |-> <<0, -1, -1, -1, -1>>, sweep |-> <<>>, blend |-> 1,
             env |-> NoFault]

NoCall == Args("none")

Idle == call = NoCall

Init ==
    /\ call = NoCall
    /\ clip = FullClip
    /\ pix = {}
    /\ drawn_area = <<INT_MAX, INT_MAX, INT_MIN, INT_MIN>>
    /\ log = <<>>
    /\ heap = {}
    /\ ret = NoRet
    /\ pyerr = ""
    /\ stroke = -1
    /\ fault = [hang |-> FALSE, ub |-> FALSE]

\* The variables after a call with arguments a whose outcome is o.
Commit(a, o) ==
    /\ call' = a
    /\ clip' = o.st.clip
    /\ pix' = o.st.pix
    /\ drawn_area' = o.st.da
    /\ log' = o.st.log
    /\ heap' = o.st.heap
    /\ ret' = o.ret
    /\ pyerr' = o.st.pyerr
    /\ stroke' = o.st.stroke
    /\ fault' = [hang |-> o.st.hang, ub |-> o.st.ub]

\* A well-formed item of a points argument.
Pt(p) == <<p[1], p[2], TRUE>>

\* The points arguments: up to MaxPoints items, each a point on or off the
\* surface or something that is no pair of numbers.
Items == {<<x, y, TRUE>> : x \in {-1, SurfW - 2}, y \in {0, SurfH - 2}}
             \cup {<<0, 0, FALSE>>}

PointLists == UNION {[1 .. n -> Items] : n \in 0 .. MaxPoints}

CallLine ==
    /\ Idle
    /\ \E c \in ClipRects, s \in Points, e \in Points, w \in Widths, env \in LockEnvs :
          Commit([Args("line") EXCEPT !.points = <<Pt(s), Pt(e)>>, !.width = w,
                                           !.env = env],
                 line(c, s, e, w, env))

CallLines ==
    /\ Idle
    /\ \E c \in ClipRects, closed \in BOOLEAN, pts \in PointLists, w \in Widths,
          env \in LockEnvs \cup ListEnvs :
          Commit([Args("lines") EXCEPT !.points = pts, !.width = w, !.closed = closed,
                                            !.env = env],
                 lines(c, closed, pts, w, env))

CallPolygon ==
    /\ Idle
    /\ \E c \in ClipRects, pts \in PointLists, w \in Widths,
          env \in LockEnvs \cup ListEnvs \cup FillEnvs :
          Commit([Args("polygon") EXCEPT !.points = pts, !.width = w, !.env = env],
                 polygon(c, pts, w, env))

\* The centres of the circles.
Centres == {<<x, y>> : x \in 0 .. SurfW - 1, y \in {1, SurfH - 1}}

Quads == [1 .. 4 -> {0, 1}]

CallCircle ==
    /\ Idle
    /\ \E c \in ClipRects, pos \in Centres, radius \in 0 .. MaxRadius, w \in Widths,
          q \in Quads, env \in LockEnvs :
          Commit([Args("circle") EXCEPT !.points = <<Pt(pos)>>, !.radius = radius,
                                             !.width = w, !.quads = q, !.env = env],
                 circle(c, pos, radius, w, q, env))

\* The rect arguments: across the left edge of the surface or inside it, of
\* every size up to one more than the surface.
Rects == {<<x, 0, w, h>> : x \in {-1, 1}, w \in 0 .. SurfW + 1, h \in 0 .. SurfH + 1}

CallEllipse ==
    /\ Idle
    /\ \E c \in ClipRects, r \in Rects, w \in Widths, env \in LockEnvs :
          Commit([Args("ellipse") EXCEPT !.rect = r, !.width = w, !.env = env],
                 ellipse(c, r, w, env))

\* The radius arguments <<border_radius, top_left, top_right, bottom_left,
\* bottom_right>>: one radius for every corner, or one corner overridden.
Radii == {<<r, -1, -1, -1, -1>> : r \in -1 .. MaxRadius}
             \cup {[i \in 1 .. 5 |-> IF i = k THEN r ELSE 0] :
                      k \in 2 .. 5, r \in {1, MaxRadius}}
             \cup {<<1, 0, MaxRadius, -1, 0>>}

RectEnvs == {NoFault, [NoFault EXCEPT !.lock = FALSE], [NoFault EXCEPT !.ylist = FALSE],
             [NoFault EXCEPT !.xint = FALSE]}

\* What an undefined conversion to int yields.
UBInts == {INT_MIN, 0}

CallRect ==
    /\ Idle
    /\ \E c \in ClipRects, r \in Rects, w \in Widths, radii \in Radii, env \in RectEnvs,
          u \in UBInts :
          LET e == [env EXCEPT !.ubint = u]
              o == rect(c, r, w, radii, e)
          IN /\ o.st.ub \/ u = INT_MIN
             /\ Commit([Args("rect") EXCEPT !.rect = r, !.width = w, !.radii = radii,
                                              !.env = e], o)

\* The angles a draw_arc loop visits: from s in steps of k eighths of a turn.
Sweeps == {[i \in 1 .. n |-> (s + (i - 1) * k) % 8] :
              s \in {0, 2, 5}, k \in {1, 2}, n \in 1 .. MaxSamples}

CallArc ==
    /\ Idle
    /\ \E c \in ClipRects, r \in Rects, w \in Widths, sw \in Sweeps, env \in LockEnvs :
          Commit([Args("arc") EXCEPT !.rect = r, !.width = w, !.sweep = sw, !.env = env],
                 arc(c, r, w, sw, env))

\* The float endpoints, in fixed point: on the pixel grid or half a pixel
\* off it, at distances that make every gradient exact.
AAPoints(o) == {<<Fix * x + o, Fix * y + o, TRUE>> : x \in {-1, 1, 3}, y \in {0, 1, 2}}
                   \cup {<<0, 0, FALSE>>}

CallAaline ==
    /\ Idle
    /\ \E c \in ClipRects, o \in {0, Fix \div 2}, blend \in {0, 1}, env \in LockEnvs :
          \E s \in AAPoints(o), e \in AAPoints(o) :
             Commit([Args("aaline") EXCEPT !.points = <<s, e>>, !.blend = blend,
                                                !.env = env],
                    aaline(c, s, e, blend, env))

AAItems == {<<Fix * x, Fix * y, TRUE>> : x \in {-1, 3}, y \in {0, 2}} \cup {<<0, 0, FALSE>>}

AAPointLists == UNION {[1 .. n -> AAItems] : n \in 0 .. MaxPoints}

CallAalines ==
    /\ Idle
    /\ \E c \in ClipRects, closed \in BOOLEAN, pts \in AAPointLists, blend \in {0, 1},
          env \in LockEnvs \cup ListEnvs :
          Commit([Args("aalines") EXCEPT !.points = pts, !.closed = closed,
                                                 !.blend = blend, !.env = env],
                 aalines(c, closed, pts, blend, env))

Return ==
    /\ ~Idle
    /\ ~fault.hang
    /\ call' = NoCall
    /\ clip' = FullClip
    /\ pix' = {}
    /\ drawn_area' = <<INT_MAX, INT_MAX, INT_MIN, INT_MIN>>
    /\ log' = <<>>
    /\ heap' = {}
    /\ ret' = NoRet
    /\ pyerr' = ""
    /\ stroke' = -1
    /\ fault' = [hang |-> FALSE, ub |-> FALSE]

Next ==
    \/ CallLine
    \/ CallLines
    \/ CallPolygon
    \/ CallCircle
    \/ CallEllipse
    \/ CallRect
    \/ CallArc
    \/ CallAaline
    \/ CallAalines
    \/ Return

Spec == Init /\ [][Next]_vars

(***************************************************************************)
(* The scenes: circle, polygon and rect called on surfaces large enough to *)
(* hold a whole shape, with no fault of the environment.                   *)
(***************************************************************************)
\* Side of the square surface the circles are drawn on.
CanvasSide == 20
\* Side of the square surface the polygons and the rects are drawn on.
PadSide == 10
\* Largest radius of a circle of a scene.
SceneRadius == 6

Canvas == [x |-> 0, y |-> 0, w |-> CanvasSide, h |-> CanvasSide]

Pad == [x |-> 0, y |-> 0, w |-> PadSide, h |-> PadSide]

\* The centres: the middle of the surface, and near its bottom edge.
SceneCentres == {<<x, y>> : x \in {CanvasSide \div 2 - 1, CanvasSide \div 2},
                            y \in {CanvasSide \div 2, CanvasSide - 4}}

SceneCircle ==
    /\ Idle
    /\ \E pos \in SceneCentres, radius \in 1 .. SceneRadius, w \in 0 .. 2 :
          Commit([Args("circle") EXCEPT !.points = <<Pt(pos)>>, !.radius = radius,
                                             !.width = w],
                 circle(Canvas, pos, radius, w, <<0, 0, 0, 0>>, NoFault))

\* The quadrant flags <<draw_top_right, draw_top_left, draw_bottom_left,
\* draw_bottom_right>> of a scene: one quadrant alone, or all four.
SceneQuads == {[i \in 1 .. 4 |-> IF i = k THEN 1 ELSE 0] : k \in 1 .. 4}
                  \cup {<<1, 1, 1, 1>>}

SceneQuadrant ==
    /\ Idle
    /\ \E pos \in SceneCentres, radius \in 1 .. SceneRadius, w \in 0 .. SceneRadius,
          q \in SceneQuads :
          Commit([Args("circle") EXCEPT !.points = <<Pt(pos)>>, !.radius = radius,
                                             !.width = w, !.quads = q],
                 circle(Canvas, pos, radius, w, q, NoFault))

\* The ellipses of every size from 2 x 2 up to the whole surface, filled
\* or with an outline of one pixel.
SceneEllipse ==
    /\ Idle
    /\ \E w \in 2 .. PadSide, h \in 2 .. PadSide, wd \in 0 .. 1 :
          Commit([Args("ellipse") EXCEPT !.rect = <<0, 0, w, h>>, !.width = wd],
                 ellipse(Pad, <<0, 0, w, h>>, wd, NoFault))

\* The rectangle with corners (l, t) and (r, b), clockwise from the top left.
Box(l, t, r, b) == <<<<l, t, TRUE>>, <<r, t, TRUE>>, <<r, b, TRUE>>, <<l, b, TRUE>>>>

ScenePolygon ==
    /\ Idle
    /\ \E l \in 0 .. 1, t \in 0 .. 1 :
          \E r \in l + 1 .. PadSide, b \in t + 1 .. PadSide :
             Commit([Args("polygon") EXCEPT !.points = Box(l, t, r, b)],
                    polygon(Pad, Box(l, t, r, b), 0, NoFault))

SceneRect ==
    /\ Idle
    /\ \E w \in PadSide - 1 .. PadSide, h \in PadSide - 1 .. PadSide, wd \in 0 .. 1,
          radius \in 1 .. SceneRadius \div 2 :
          Commit([Args("rect") EXCEPT !.rect = <<0, 0, w, h>>, !.width = wd,
                                           !.radii = <<radius, -1, -1, -1, -1>>],
                 rect(Pad, <<0, 0, w, h>>, wd, <<radius, -1, -1, -1, -1>>, NoFault))

SceneNext ==
    \/ SceneCircle
    \/ SceneQuadrant
    \/ SceneEllipse
    \/ ScenePolygon
    \/ SceneRect
    \/ Return

SceneSpec == Init /\ [][SceneNext]_vars

(***************************************************************************)
(* The far lines: line called with x coordinates near the ends of the      *)
(* range of int, from one row of the surface to another.                   *)
(***************************************************************************)
\* A coordinate three quarters of the way to INT_MAX.
FarCoord == (INT_MAX \div 4) * 3

CallLineFar ==
    /\ Idle
    /\ \E c \in ClipRects, y1 \in 0 .. 2, y2 \in 0 .. 2, w \in 1 .. 2 :
       \E x1 \in {-FarCoord, FarCoord - 1, FarCoord},
          x2 \in {-FarCoord, FarCoord - 1, FarCoord} :
          /\ y1 # y2
          /\ Commit([Args("line") EXCEPT !.points = <<<<x1, y1, TRUE>>, <<x2, y2, TRUE>>>>,
                                           !.width = w],
                    line(c, <<x1, y1>>, <<x2, y2>>, w, NoFault))

FarNext ==
    \/ CallLineFar
    \/ Return

FarSpec == Init /\ [][FarNext]_vars

(***************************************************************************)
(* The surface's memory: one blended pixel of an antialiased line, on a    *)
(* surface of SurfW x SurfH pixels in every pixel format.  A format is     *)
(* [BytesPerPixel, pitch, w, h]; a memory access is the offset of its      *)
(* first byte from surf->pixels and the number of bytes it spans.          *)
(***************************************************************************)
\* Largest number of padding bytes at the end of a row.
MaxPad == 2

Formats == {[BytesPerPixel |-> b, pitch |-> SurfW * b + pad, w |-> SurfW, h |-> SurfH] :
               b \in 1 .. 4, pad \in 0 .. MaxPad}

\* set_at's store: *((UintN *)(pixels + y * pitch) + x), or the three bytes
\* at byte_buf = pixels + y * pitch + x * 3.
PixelStore(f, x, y) ==
    [ev |-> "store", x |-> x, y |-> y, ok |-> TRUE,
     at |-> y * f.pitch + x * f.BytesPerPixel, size |-> f.BytesPerPixel]

\* get_antialiased_color's read: ((Uint32 *)surf->pixels)[(y * surf->w) + x].
PixelLoad(f, x, y) ==
    [ev |-> "load", x |-> x, y |-> y, ok |-> TRUE,
     at |-> 4 * (y * f.w + x), size |-> 4]

\* get_antialiased_color and set_at for a pixel (x, y) of the surface, with
\* blend set and the clip rect the whole surface.  A read that reaches beyond
\* the h * pitch bytes of the pixel buffer is undefined.
PlotBlended ==
    /\ Idle
    /\ \E f \in Formats, x \in 0 .. SurfW - 1, y \in 0 .. SurfH - 1 :
          /\ call' = [op |-> "aa_plot", format |-> f, x |-> x, y |-> y, blend |-> 1]
          /\ log' = <<PixelLoad(f, x, y), PixelStore(f, x, y)>>
          /\ pix' = {<<x, y>>}
          /\ drawn_area' = add_pixel_to_drawn_list(x, y, drawn_area)
          /\ fault' = [hang |-> FALSE, ub |-> PixelLoad(f, x, y).at + PixelLoad(f, x, y).size
                                                  > f.h * f.pitch]
          /\ UNCHANGED <<clip, heap, ret, pyerr, stroke>>

MemoryNext ==
    \/ PlotBlended
    \/ Return

MemorySpec == Init /\ [][MemoryNext]_vars

(***************************************************************************)
(* The quadrilaterals: polygon called on the pad with four corners taken   *)
(* in every order from a small grid, so that corners strictly between the  *)
(* highest and the lowest row, edges of every slope, repeated corners and  *)
(* outlines that cross themselves all occur.                               *)
(***************************************************************************)
QuadCorners == {<<x, y>> : x \in {0, 2, PadSide - 4}, y \in 0 .. 3}

Quadrilateral(a, b, c, d) == <<Pt(a), Pt(b), Pt(c), Pt(d)>>

SceneQuadrilateral ==
    /\ Idle
    /\ \E a \in QuadCorners, b \in QuadCorners, c \in QuadCorners, d \in QuadCorners :
          Commit([Args("polygon") EXCEPT !.points = Quadrilateral(a, b, c, d)],
                 polygon(Pad, Quadrilateral(a, b, c, d), 0, NoFault))

QuadNext ==
    \/ SceneQuadrilateral
    \/ Return

QuadSpec == Init /\ [][QuadNext]_vars

(***************************************************************************)
(* What the properties speak of.                                           *)
(***************************************************************************)
\* (x, y) lies in the clip rect of the call.
InClip(x, y) == clip.x <= x /\ x < clip.x + clip.w /\ clip.y <= y /\ y < clip.y + clip.h

\* The positions in the log of the calls of set_at, and of those that stored.
SetAtIdx == {i \in 1 .. Len(log) : log[i].ev = "set_at"}

StoredIdx == {i \in SetAtIdx : log[i].ok}

LockIdx == {i \in 1 .. Len(log) : log[i].ev = "lock"}

UnlockIdx == {i \in 1 .. Len(log) : log[i].ev = "unlock"}

\* The smallest rect <<min_x, min_y, w, h>> that covers the pixels of S.
Extent(S) ==
    LET xs == {p[1] : p \in S}
        ys == {p[2] : p \in S}
        lo(T) == CHOOSE v \in T : \A u \in T : v <= u
        hi(T) == CHOOSE v \in T : \A u \in T : v >= u
    IN <<lo(xs), lo(ys), hi(xs) - lo(xs) + 1, hi(ys) - lo(ys) + 1>>

\* The anchor of the call: where its zero-size rect is positioned.
Anchor ==
    CASE call.op \in {"line", "lines", "polygon", "circle"} ->
            <<call.points[1][1], call.points[1][2]>>
      [] call.op \in {"aaline", "aalines"} ->
            <<Trunc(call.points[1][1]), Trunc(call.points[1][2])>>
      [] OTHER -> <<call.rect[1], call.rect[2]>>

\* The call returned a Rect.
Returned == ret.kind = "rect"

\* The differences of the endpoints of a line call.
LineDx == abs(call.points[2][1] - call.points[1][1])

LineDy == abs(call.points[2][2] - call.points[1][2])

\* A line call of width 1 that drew: what draw_line did is in the log.
ThinLine == call.op = "line" /\ call.width = 1 /\ Returned

(***************************************************************************)
(* C1  Clip safety.  In every call of every primitive, a pixel is stored   *)
(* only inside the clip rect; set_at returns true exactly when the pixel   *)
(* is inside the clip rect; and a set_at that returns false changes        *)
(* neither the surface nor the accumulator: the surface holds the pixels   *)
(* of the set_at calls that returned true and no other, and the            *)
(* accumulator spans exactly those.                                        *)
(***************************************************************************)
ClipSafety ==
    /\ \A p \in pix : InClip(p[1], p[2])
    /\ \A i \in SetAtIdx : log[i].ok <=> InClip(log[i].x, log[i].y)
    /\ pix = {<<log[i].x, log[i].y>> : i \in StoredIdx}
    /\ IF pix = {} THEN drawn_area = <<INT_MAX, INT_MAX, INT_MIN, INT_MIN>>
       ELSE LET e == Extent(pix)
            IN drawn_area = <<e[1], e[2], e[1] + e[3] - 1, e[2] + e[4] - 1>>

\* A call under the inner clip rect that stored a pixel on the last column of
\* the clip rect and had a pixel on the next column clipped away.
ClipSafetyWitness ==
    /\ clip.x = 1
    /\ \E i \in StoredIdx : log[i].x = clip.x + clip.w - 1
    /\ \E i \in SetAtIdx : ~log[i].ok /\ log[i].x = clip.x + clip.w

(***************************************************************************)
(* C2  Return rect.  A call that returns a Rect and wrote at least one     *)
(* pixel returns exactly the extent of the pixels it wrote; a call that    *)
(* wrote none returns the zero-size Rect at its anchor (line: the start;   *)
(* lines and polygon: the first point; circle: the centre; arc, ellipse    *)
(* and rect: the top-left corner of the rect).                             *)
(***************************************************************************)
ReturnRectExact ==
    Returned =>
       IF pix # {}
       THEN <<ret.x, ret.y, ret.w, ret.h>> = Extent(pix)
       ELSE <<ret.x, ret.y, ret.w, ret.h>> = <<Anchor[1], Anchor[2], 0, 0>>

\* A circle of which a part was clipped away and a part was stored: the
\* returned Rect is the extent of the stored part only.
ReturnRectWitness ==
    /\ call.op = "circle"
    /\ Returned
    /\ pix # {}
    /\ \E i \in SetAtIdx : ~log[i].ok
    /\ ret.w < 2 * call.radius

(***************************************************************************)
(* C3  Line symmetry, as amended.  line(A, B) and line(B, A) of width 1    *)
(* write the same set of pixels when A and B share a row or a column, when *)
(* |dx| = |dy|, or when max(|dx|, |dy|) is odd.                            *)
(***************************************************************************)
\* The pixels line writes when its endpoints are exchanged.
ReversePix ==
    line(clip, <<call.points[2][1], call.points[2][2]>>,
         <<call.points[1][1], call.points[1][2]>>, 1, NoFault).st.pix

LineSymmetryAmended ==
    (/\ ThinLine
     /\ \/ LineDx = 0
        \/ LineDy = 0
        \/ LineDx = LineDy
        \/ MAX(LineDx, LineDy) % 2 = 1)
    => pix = ReversePix

\* A sloped line with an odd major difference, drawn in full.
LineSymmetryWitness ==
    /\ ThinLine
    /\ LineDx = 3
    /\ LineDy = 2
    /\ Cardinality(pix) = 4

\* C3 as stated: line(A, B) and line(B, A) of width 1 write the same set of
\* pixels for all endpoints A and B.
LineSymmetry == ThinLine => pix = ReversePix

(***************************************************************************)
(* C4  Line raster guarantee.  draw_line calls set_at exactly              *)
(* max(|dx|, |dy|) + 1 times, never twice for the same pixel, first for    *)
(* the start and last for the end, and an endpoint inside the clip rect is *)
(* stored.                                                                 *)
(***************************************************************************)
LineRaster ==
    ThinLine =>
       LET first == CHOOSE i \in SetAtIdx : \A j \in SetAtIdx : i <= j
           last == CHOOSE i \in SetAtIdx : \A j \in SetAtIdx : i >= j
       IN /\ Cardinality(SetAtIdx) = MAX(LineDx, LineDy) + 1
          /\ \A i, j \in SetAtIdx :
                (log[i].x = log[j].x /\ log[i].y = log[j].y) => i = j
          /\ <<log[first].x, log[first].y>> = <<call.points[1][1], call.points[1][2]>>
          /\ <<log[last].x, log[last].y>> = <<call.points[2][1], call.points[2][2]>>
          /\ \A k \in 1 .. 2 :
                InClip(call.points[k][1], call.points[k][2])
                   => <<call.points[k][1], call.points[k][2]>> \in pix

\* A sloped line of four pixels whose both endpoints were stored.
LineRasterWitness ==
    /\ ThinLine
    /\ LineDx = 2
    /\ LineDy = 3
    /\ Cardinality(SetAtIdx) = 4
    /\ \A k \in 1 .. 2 : <<call.points[k][1], call.points[k][2]>> \in pix

(***************************************************************************)
(* C5  Degenerate inputs.  line with width < 1, lines with width < 1 (and  *)
(* arguments that are otherwise valid), arc, ellipse and rect with         *)
(* width < 0, and circle with radius < 1 or width < 0 return the zero-size *)
(* Rect at the anchor, store no pixel and never lock the surface.          *)
(***************************************************************************)
DegenerateCall ==
    \/ call.op = "line" /\ call.width < 1
    \/ /\ call.op = "lines"
       /\ call.width < 1
       /\ Len(call.points) >= 2
       /\ ~Malformed(call.points)
       /\ call.env.xlist
       /\ call.env.ylist
    \/ call.op \in {"arc", "ellipse", "rect"} /\ call.width < 0
    \/ call.op = "circle" /\ (call.radius < 1 \/ call.width < 0)

DegenerateDrawsNothing ==
    DegenerateCall =>
       /\ ret = Rect(Anchor[1], Anchor[2], 0, 0)
       /\ pyerr = ""
       /\ pix = {}
       /\ SetAtIdx = {}
       /\ LockIdx = {}

\* lines with width 0 and three valid points, called when the lock could not
\* be had: the call returns its zero-size Rect all the same.
DegenerateWitness ==
    /\ call.op = "lines"
    /\ call.width = 0
    /\ Len(call.points) = 3
    /\ ~call.env.lock
    /\ Returned

(***************************************************************************)
(* C6  Lock protocol.  A call locks the surface at most once; set_at is    *)
(* called only after a successful lock and before the unlock; a successful *)
(* lock is followed by exactly one unlock before the call returns, also    *)
(* when the polygon fill cannot allocate; a failed lock is followed by no  *)
(* set_at and no unlock, and the call returns an error.                    *)
(***************************************************************************)
LockProtocol ==
    /\ Cardinality(LockIdx) <= 1
    /\ \A i \in SetAtIdx :
          /\ \E j \in LockIdx : j < i /\ log[j].ok
          /\ \A k \in UnlockIdx : k > i
    /\ \A j \in LockIdx :
          IF log[j].ok
          THEN /\ Cardinality(UnlockIdx) = 1
               /\ \A k \in UnlockIdx : k > j
          ELSE /\ UnlockIdx = {}
               /\ SetAtIdx = {}
               /\ pix = {}
               /\ ret.kind = "error"
    /\ LockIdx = {} => UnlockIdx = {} /\ SetAtIdx = {}

\* A polygon fill whose intersection buffer could not be allocated: the
\* surface was locked, and unlocked again.
LockProtocolWitness ==
    /\ call.op = "polygon"
    /\ ~call.env.xint
    /\ \E j \in LockIdx : log[j].ok
    /\ Cardinality(UnlockIdx) = 1
    /\ pyerr = "MemoryError"

(***************************************************************************)
(* C7  Scratch buffers never survive a call: when a call has returned, no  *)
(* buffer it allocated is still allocated.                                 *)
(***************************************************************************)
BuffersFreed == ~Idle => heap = {}

(***************************************************************************)
(* C8  Polygon-rect equivalence, as amended.  For a rect (x, y, w, h) with *)
(* no positive radius and a width 0 <= wd <= min(w / 2, h / 2), rect       *)
(* stores the same pixels and returns the same value as polygon called     *)
(* with the four corners and width wd.                                     *)
(***************************************************************************)
\* polygon([(x, y), (x + w - 1, y), (x + w - 1, y + h - 1), (x, y + h - 1)], wd)
PolygonOfRect ==
    LET x == call.rect[1]
        y == call.rect[2]
        w == call.rect[3]
        h == call.rect[4]
    IN polygon(clip, <<<<x, y, TRUE>>, <<x + w - 1, y, TRUE>>,
                       <<x + w - 1, y + h - 1, TRUE>>, <<x, y + h - 1, TRUE>>>>,
               call.width, call.env)

\* rect was called with no positive radius and a width that is not negative.
PlainRect ==
    /\ call.op = "rect"
    /\ call.width >= 0
    /\ \A i \in 1 .. 5 : call.radii[i] <= 0

RectIsPolygonAmended ==
    (/\ PlainRect
     /\ call.width <= CDiv(call.rect[3], 2)
     /\ call.width <= CDiv(call.rect[4], 2))
    => /\ pix = PolygonOfRect.st.pix
       /\ ret = PolygonOfRect.ret

\* A 4 x 5 rect outlined with width 2.
RectIsPolygonWitness ==
    /\ PlainRect
    /\ call.rect[3] = 4
    /\ call.rect[4] = 5
    /\ call.width = 2
    /\ Returned
    /\ pix # {}

\* C8 as stated: the equivalence for every width wd >= 0.
RectIsPolygon ==
    PlainRect => /\ pix = PolygonOfRect.st.pix
                 /\ ret = PolygonOfRect.ret

(***************************************************************************)
(* C9  Width clamping.  When ellipse, arc or rect is called with           *)
(* width > 0 and starts to draw, the width it draws with is                *)
(* min(width, min(w, h) / 2).                                              *)
(***************************************************************************)
WidthClamped ==
    (/\ call.op \in {"ellipse", "arc", "rect"}
     /\ call.width > 0
     /\ \E j \in LockIdx : log[j].ok)
    => stroke = MIN(call.width, CDiv(MIN(call.rect[3], call.rect[4]), 2))

(***************************************************************************)
(* C10  Too few points.  polygon called with fewer than 3 points and lines *)
(* called with fewer than 2 points fail with ValueError and store no       *)
(* pixel, whatever the width.                                              *)
(***************************************************************************)
TooFewPointsFail ==
    (\/ call.op = "polygon" /\ Len(call.points) < 3
     \/ call.op = "lines" /\ Len(call.points) < 2)
    => /\ ret.kind = "error"
       /\ ret.exc = "ValueError"
       /\ pix = {}

(***************************************************************************)
(* Helpers of the claims about whole shapes.                               *)
(***************************************************************************)
\* No set_at of the events fell outside the clip rect.
AllStored(events) ==
    \A i \in 1 .. Len(events) : events[i].ev = "set_at" => events[i].ok

\* The call was not clipped.
Unclipped == AllStored(log)

\* A circle call with radius >= 1, width w and no quadrant flag, that returned.
WholeCircle(w) ==
    /\ call.op = "circle"
    /\ call.radius >= 1
    /\ call.width = w
    /\ call.quads = <<0, 0, 0, 0>>
    /\ Returned

\* The centre of a circle call.
Cx == call.points[1][1]

Cy == call.points[1][2]

\* The same circle call with width 0.
FilledCircle ==
    circle(clip, <<Cx, Cy>>, call.radius, 0, call.quads, call.env)

\* The first and the last pixel of S in every row and in every column.
Rim(S) ==
    {p \in S : \/ \A q \in S : q[2] = p[2] => q[1] >= p[1]
               \/ \A q \in S : q[2] = p[2] => q[1] <= p[1]
               \/ \A q \in S : q[1] = p[1] => q[2] >= p[2]
               \/ \A q \in S : q[1] = p[1] => q[2] <= p[2]}

(***************************************************************************)
(* C11  Outline/filled agreement.  For a radius r >= 1, no quadrant flag   *)
(* and nothing clipped, every pixel circle stores with width 1 is stored   *)
(* by the same call with width 0, and in every row and every column of the *)
(* filled circle the first and the last pixel are stored by the outline.   *)
(***************************************************************************)
OutlineOnRim ==
    (WholeCircle(1) /\ Unclipped /\ AllStored(FilledCircle.st.log))
    => /\ pix \subseteq FilledCircle.st.pix
       /\ Rim(FilledCircle.st.pix) \subseteq pix

\* The outline of radius 5 around (10, 10), drawn by draw_circle_bresenham.
OutlineOnRimWitness ==
    /\ WholeCircle(1)
    /\ Unclipped
    /\ call.radius = 5
    /\ <<Cx, Cy>> = <<10, 10>>
    /\ <<Cx, Cy - 5>> \in pix
    /\ <<Cx, Cy>> \notin pix
    /\ <<Cx, Cy>> \in FilledCircle.st.pix

(***************************************************************************)
(* C12  Circle width clamps to the radius.  For a radius r >= 1, no        *)
(* quadrant flag and a width w >= r, circle stores the same pixels and     *)
(* returns the same value as the same call with width 0.                   *)
(***************************************************************************)
\* A circle call with no quadrant flag whose width reaches its radius.
WideCircle ==
    /\ call.op = "circle"
    /\ call.radius >= 1
    /\ call.width >= call.radius
    /\ call.quads = <<0, 0, 0, 0>>

WidthClampsToRadius ==
    WideCircle => /\ pix = FilledCircle.st.pix
                  /\ ret = FilledCircle.ret

\* A circle of radius 2 drawn with width 3.
WidthClampsToRadiusWitness ==
    /\ WideCircle
    /\ call.radius = 2
    /\ call.width = 3
    /\ Returned
    /\ Cardinality(pix) > 4

(***************************************************************************)
(* C13  Filled circle extent along the vertical axis, as amended.  A       *)
(* filled circle circle((cx, cy), r, width=0) with nothing clipped stores  *)
(* the centre pixel (cx, cy) and the pixel (cx, cy + r - 1) and stores     *)
(* neither (cx, cy + r) nor (cx, cy + r + 1); with centre (10, 10) and     *)
(* r = 5, pixel (10, 14) is stored and (10, 15) and (10, 16) are not.      *)
(***************************************************************************)
\* The call circle((10, 10), 5, width=0).
DiskScenario ==
    /\ WholeCircle(0)
    /\ <<Cx, Cy>> = <<10, 10>>
    /\ call.radius = 5

FilledExtentAmended ==
    /\ (WholeCircle(0) /\ Unclipped)
       => /\ <<Cx, Cy>> \in pix
          /\ <<Cx, Cy + call.radius - 1>> \in pix
          /\ <<Cx, Cy + call.radius>> \notin pix
          /\ <<Cx, Cy + call.radius + 1>> \notin pix
    /\ (DiskScenario /\ Unclipped)
       => /\ <<10, 14>> \in pix
          /\ <<10, 15>> \notin pix
          /\ <<10, 16>> \notin pix

\* The disk of the scenario: its lowest pixel below the centre is (10, 14).
FilledExtentWitness ==
    /\ DiskScenario
    /\ Unclipped
    /\ <<10, 10>> \in pix
    /\ <<10, 14>> \in pix
    /\ <<10, 15>> \notin pix

\* C13 as stated: the pixel (cx, cy + r) is stored.
FilledExtent ==
    (WholeCircle(0) /\ Unclipped)
    => /\ <<Cx, Cy>> \in pix
       /\ <<Cx, Cy + call.radius>> \in pix
       /\ <<Cx, Cy + call.radius + 1>> \notin pix

(***************************************************************************)
(* C14  Filled circle bounding rect.  For a radius r >= 1, circle with     *)
(* width 0 and nothing clipped returns a rect of width 2r and height 2r.   *)
(***************************************************************************)
DiskRect ==
    (WholeCircle(0) /\ Unclipped)
    => /\ ret.w = 2 * call.radius
       /\ ret.h = 2 * call.radius

\* The disk of radius 5 around (10, 10) returns the rect (5, 5, 10, 10).
DiskRectWitness ==
    /\ DiskScenario
    /\ Unclipped
    /\ ret = Rect(5, 5, 10, 10)

(***************************************************************************)
(* C15  Thick-line monotonicity.  For endpoints A and B and a width        *)
(* k >= 1, every pixel line(A, B, width=k) stores is stored by             *)
(* line(A, B, width=k+1).                                                  *)
(***************************************************************************)
\* The same line call with its width one larger.
ThickerLine ==
    line(clip, <<call.points[1][1], call.points[1][2]>>,
         <<call.points[2][1], call.points[2][2]>>, call.width + 1, call.env)

ThickLineMonotone ==
    (call.op = "line" /\ call.width >= 1) => pix \subseteq ThickerLine.st.pix

\* A sloped line of width 2 to which width 3 adds pixels.
ThickLineWitness ==
    /\ call.op = "line"
    /\ call.width = 2
    /\ Returned
    /\ LineDx = 3
    /\ LineDy = 1
    /\ Cardinality(pix) >= 6
    /\ pix # ThickerLine.st.pix

(***************************************************************************)
(* C16  Ellipse stays inside its rect.  For a rect (x, y, w, h) and a      *)
(* width >= 0, every pixel ellipse stores has x <= px < x + w and          *)
(* y <= py < y + h, the degenerate vertical and horizontal lines included. *)
(***************************************************************************)
\* The pixel p lies inside the rect argument of the call.
InRect(p) ==
    /\ call.rect[1] <= p[1]
    /\ p[1] < call.rect[1] + call.rect[3]
    /\ call.rect[2] <= p[2]
    /\ p[2] < call.rect[2] + call.rect[4]

EllipseInsideRect ==
    (call.op = "ellipse" /\ call.width >= 0) => \A p \in pix : InRect(p)

(***************************************************************************)
(* C17  Rounded rect stays inside its rect.  For a rect (x, y, w, h) with  *)
(* w, h >= 1, a width >= 0 and radii of which at least one is positive,    *)
(* every pixel rect stores has x <= px < x + w and y <= py < y + h.        *)
(***************************************************************************)
RoundRectInsideRect ==
    (/\ call.op = "rect"
     /\ call.rect[3] >= 1
     /\ call.rect[4] >= 1
     /\ call.width >= 0
     /\ \E i \in 1 .. 5 : call.radii[i] > 0)
    => \A p \in pix : InRect(p)

(***************************************************************************)
(* C18  Filled axis-aligned rectangle polygon.  For l < r and t < b and    *)
(* nothing clipped, polygon([(l, t), (r, t), (r, b), (l, b)], width=0)     *)
(* stores exactly the (r - l + 1) * (b - t + 1) pixels with l <= x <= r    *)
(* and t <= y <= b and returns the rect (l, t, r - l + 1, b - t + 1); for  *)
(* (1, 1), (8, 1), (8, 8), (1, 8) that is 64 pixels and the rect           *)
(* (1, 1, 8, 8).                                                           *)
(***************************************************************************)
\* polygon was called with width 0 and the corners of an axis-aligned
\* rectangle, clockwise from the top left (l, t), with l < r and t < b.
BoxPolygon ==
    /\ call.op = "polygon"
    /\ call.width = 0
    /\ Len(call.points) = 4
    /\ call.points = Box(call.points[1][1], call.points[1][2],
                         call.points[3][1], call.points[3][2])
    /\ call.points[1][1] < call.points[3][1]
    /\ call.points[1][2] < call.points[3][2]

FilledBox ==
    /\ (BoxPolygon /\ Unclipped)
       => LET l == call.points[1][1]
              t == call.points[1][2]
              r == call.points[3][1]
              b == call.points[3][2]
          IN /\ pix = (l .. r) \X (t .. b)
             /\ Cardinality(pix) = (r - l + 1) * (b - t + 1)
             /\ ret = Rect(l, t, r - l + 1, b - t + 1)
    /\ (BoxPolygon /\ Unclipped /\ call.points = Box(1, 1, 8, 8))
       => /\ Cardinality(pix) = 64
          /\ ret = Rect(1, 1, 8, 8)

\* The square of the scenario, filled.
FilledBoxWitness ==
    /\ BoxPolygon
    /\ Unclipped
    /\ call.points = Box(1, 1, 8, 8)
    /\ <<8, 8>> \in pix
    /\ Returned

(***************************************************************************)
(* C19  Filled rounded rect scenario.  rect((0, 0, 10, 10), width=0,       *)
(* border_radius=3) on a 10 x 10 surface leaves the corner pixels (0, 0),  *)
(* (9, 0), (0, 9) and (9, 9) unwritten, stores the centre pixel and        *)
(* returns the rect (0, 0, 10, 10).                                        *)
(***************************************************************************)
\* The call rect((0, 0, 10, 10), width=0, border_radius=3), nothing clipped.
RoundedSquareScenario ==
    /\ call.op = "rect"
    /\ call.rect = <<0, 0, 10, 10>>
    /\ call.width = 0
    /\ call.radii = <<3, -1, -1, -1, -1>>
    /\ Unclipped

RoundedSquare ==
    RoundedSquareScenario
    => /\ {<<0, 0>>, <<9, 0>>, <<0, 9>>, <<9, 9>>} \cap pix = {}
       /\ <<5, 5>> \in pix
       /\ <<4, 4>> \in pix
       /\ ret = Rect(0, 0, 10, 10)

\* The scenario on the 10 x 10 surface: the rounding removes pixels, and
\* every edge of the rect is reached.
RoundedSquareWitness ==
    /\ RoundedSquareScenario
    /\ clip = [x |-> 0, y |-> 0, w |-> 10, h |-> 10]
    /\ Returned
    /\ <<0, 3>> \in pix
    /\ <<3, 0>> \in pix
    /\ <<9, 6>> \in pix
    /\ <<6, 9>> \in pix
    /\ Cardinality(pix) < 100

(***************************************************************************)
(* C20  The antialiasing sampler never reads outside the clip rect.        *)
(* During aaline and aalines every read of a destination pixel is at a     *)
(* location inside the clip rect: with blend set, a pixel outside the clip *)
(* rect is handed to set_at without a read before it.                      *)
(***************************************************************************)
\* The positions in the log of the reads of a destination pixel.
GetAtIdx == {i \in 1 .. Len(log) : log[i].ev = "get_at"}

FillsByPolygon ==
    \/ call.op = "polygon"
    \/ call.op = "rect" /\ \A i \in 1 .. 5 : call.radii[i] <= 0

\* PyMem_New returned NULL for x_intersect.
FillAllocFailed == \E i \in 1 .. Len(log) : log[i] = Ev("alloc", 3, 0, FALSE)

FillFailsCleanly ==
    FillsByPolygon /\ FillAllocFailed
    => /\ pyerr = "MemoryError"
       /\ SetAtIdx = {}
       /\ pix = {}
       /\ drawn_area = <<INT_MAX, INT_MAX, INT_MIN, INT_MIN>>
       /\ heap = {}
       /\ \E i \in 1 .. Len(log), j \in 1 .. Len(log), k \in UnlockIdx :
             /\ log[i] = Ev("free", 1, 0, TRUE)
             /\ log[j] = Ev("free", 2, 0, TRUE)
             /\ i < k
             /\ j < k
             /\ k = Len(log)

\* A polygon of three points, not all on one row, whose fill cannot allocate.
FillFailsWitness ==
    /\ call.op = "polygon"
    /\ Len(call.points) = 3
    /\ call.points[1][2] # call.points[2][2]
    /\ FillAllocFailed
    /\ LockIdx # {}
    /\ Returned

(***************************************************************************)
(* C22  Thick line construction.  A line of width w >= 1 is w Bresenham    *)
(* lines drawn in this order: the central line, then its copies at the     *)
(* offsets +1, -1, +2, -2, ... along the y axis when |dx| > |dy| and along *)
(* the x axis otherwise, so that |dx| = |dy| thickens in x.                *)
(***************************************************************************)
\* The offset of the i-th line drawn: 0, +1, -1, +2, -2, ...
LineOffset(i) == IF i % 2 = 0 THEN i \div 2 ELSE -(i \div 2)

RECURSIVE ParallelLines(_, _, _, _, _)
\* Lines i .. w of the line call, drawn one after the other on st.
ParallelLines(st, i, w, ox, oy) ==
    IF i > w THEN st
    ELSE ParallelLines(draw_line(st, call.points[1][1] + ox * LineOffset(i),
                                 call.points[1][2] + oy * LineOffset(i),
                                 call.points[2][1] + ox * LineOffset(i),
                                 call.points[2][2] + oy * LineOffset(i)),
                       i + 1, w, ox, oy)

\* The calls of set_at in the log, in order.
SetAtLog(events) == SelectSeq(events, LAMBDA e : e.ev = "set_at")

ThickLineConstruction ==
    (call.op = "line" /\ call.width >= 1 /\ LockIdx # {} /\ log[1].ok)
    => SetAtLog(log) =
          ParallelLines(NewState(clip), 1, call.width,
                        IF LineDx > LineDy THEN 0 ELSE 1,
                        IF LineDx > LineDy THEN 1 ELSE 0).log

\* A diagonal of width 3: copies one pixel right and one pixel left of it.
ThickLineConstructionWitness ==
    /\ call.op = "line"
    /\ call.width = 3
    /\ Returned
    /\ LineDx = 2
    /\ LineDy = 2
    /\ call.points[1] = <<1, 0, TRUE>>
    /\ call.points[2] = <<3, 2, TRUE>>
    /\ {<<0, 0>>, <<1, 0>>, <<2, 0>>} \subseteq pix
    /\ <<1, 1>> \in pix
    /\ <<0, 1>> \notin pix

(***************************************************************************)
(* C23  Quadrant mode equals outline mode when every quadrant is selected. *)
(* For a radius r >= 2 and a width 1 <= w < r, circle with the four        *)
(* draw_* flags set hands set_at the same pixels, and stores the same      *)
(* pixels, as circle with the same arguments and no flag.                  *)
(***************************************************************************)
\* The pixels the events hand to set_at, stored or clipped.
Plotted(events) ==
    {<<events[i].x, events[i].y>> : i \in {j \in 1 .. Len(events) : events[j].ev = "set_at"}}

\* The same circle call with no quadrant flag.
UnflaggedCircle ==
    circle(clip, <<Cx, Cy>>, call.radius, call.width, <<0, 0, 0, 0>>, call.env)

\* A circle call with every quadrant flag set and a width below its radius.
AllQuadrants ==
    /\ call.op = "circle"
    /\ call.quads = <<1, 1, 1, 1>>
    /\ call.radius >= 2
    /\ 1 <= call.width
    /\ call.width < call.radius

QuadrantsMakeOutline ==
    AllQuadrants => /\ Plotted(log) = Plotted(UnflaggedCircle.st.log)
                    /\ pix = UnflaggedCircle.st.pix

\* The ring of radius 6 and width 2 around (10, 10), drawn by quadrants.
QuadrantsMakeOutlineWitness ==
    /\ AllQuadrants
    /\ Returned
    /\ call.radius = 6
    /\ call.width = 2
    /\ <<Cx, Cy>> = <<10, 10>>
    /\ {<<10, 4>>, <<10, 5>>, <<4, 10>>, <<15, 10>>, <<9, 15>>} \subseteq pix
    /\ <<10, 6>> \notin pix
    /\ ret = Rect(4, 4, 12, 12)

(***************************************************************************)
(* C24  Rounded-rect radius clamping.  In every rect call that reaches     *)
(* draw_round_rect, the corner radii left by the defaults and the scaling  *)
(* step fit the sides of the rect (x, y, W, H): top_left + top_right <= W, *)
(* bottom_left + bottom_right <= W, top_left + bottom_left <= H and        *)
(* top_right + bottom_right <= H.                                          *)
(***************************************************************************)
\* The rect call drew with draw_round_rect.
RoundRectDrawn ==
    /\ call.op = "rect"
    /\ \E i \in 1 .. 5 : call.radii[i] > 0
    /\ stroke >= 0

\* <<top_left, top_right, bottom_left, bottom_right>> as draw_round_rect uses them.
ClampedRadii ==
    ClampRadii(call.rect[3], call.rect[4], call.radii[1], SubSeq(call.radii, 2, 5),
               call.env.ubint).r

\* A scaled radius is the int a float that is no number, or no finite one,
\* was converted to.
RadiiUndefined ==
    ClampRadii(call.rect[3], call.rect[4], call.radii[1], SubSeq(call.radii, 2, 5),
               call.env.ubint).ub

RadiiFitSides ==
    RoundRectDrawn
    => /\ ~RadiiUndefined
       /\ ClampedRadii[1] + ClampedRadii[2] <= call.rect[3]
       /\ ClampedRadii[3] + ClampedRadii[4] <= call.rect[3]
       /\ ClampedRadii[1] + ClampedRadii[3] <= call.rect[4]
       /\ ClampedRadii[2] + ClampedRadii[4] <= call.rect[4]

(***************************************************************************)
(* C25  Filled versus outline ellipse height, as amended.  For a rect      *)
(* (x, y, W, H) with W >= 2 and an even H >= 4 and nothing clipped, the    *)
(* filled ellipse (width 0) and the outline ellipse (width 1) of the rect  *)
(* cover the same pixel rows, the H rows y .. y + H - 1.                   *)
(***************************************************************************)
\* The rows in which S has a pixel.
Rows(S) == {p[2] : p \in S}

\* The same ellipse call with width 1.
OutlineEllipse == ellipse(clip, call.rect, 1, call.env)

\* A filled ellipse of even height at least minH, nothing clipped.
FilledEvenEllipse(minH) ==
    /\ call.op = "ellipse"
    /\ call.width = 0
    /\ Returned
    /\ call.rect[3] >= 2
    /\ call.rect[4] >= minH
    /\ call.rect[4] % 2 = 0
    /\ Unclipped
    /\ AllStored(OutlineEllipse.st.log)

FilledEllipseRowsAmended ==
    FilledEvenEllipse(4)
    => /\ Rows(pix) = Rows(OutlineEllipse.st.pix)
       /\ Rows(pix) = call.rect[2] .. call.rect[2] + call.rect[4] - 1

\* The filled ellipse of the rect (0, 0, 9, 6): six rows, as its outline.
FilledEllipseRowsWitness ==
    /\ FilledEvenEllipse(4)
    /\ call.rect = <<0, 0, 9, 6>>
    /\ Rows(pix) = 0 .. 5
    /\ <<4, 0>> \in pix
    /\ <<4, 0>> \in OutlineEllipse.st.pix
    /\ <<4, 3>> \in pix
    /\ <<4, 3>> \notin OutlineEllipse.st.pix

\* C25 as stated: the filled ellipse covers one more row than the outline.
FilledEllipseTaller ==
    FilledEvenEllipse(2)
    => Cardinality(Rows(pix)) = Cardinality(Rows(OutlineEllipse.st.pix)) + 1

(***************************************************************************)
(* C26  Every call terminates.  No loop of a call fails to end, and the    *)
(* general Bresenham loop of draw_line walks from (x1, y1) to (x2, y2)     *)
(* without leaving the box the two points span: a sloped line of width 1   *)
(* calls set_at for pixels of that box alone, last of all for (x2, y2).    *)
(***************************************************************************)
\* A line call of width 1 whose endpoints differ in x and in y, with the
\* surface locked.
SlopedLine ==
    /\ call.op = "line"
    /\ call.width = 1
    /\ call.points[1][1] # call.points[2][1]
    /\ call.points[1][2] # call.points[2][2]
    /\ LockIdx # {}
    /\ log[1].ok

\* v lies between a and b.
Between(v, a, b) == MIN(a, b) <= v /\ v <= MAX(a, b)

CallsTerminate ==
    /\ ~fault.hang
    /\ SlopedLine
       => /\ \A i \in SetAtIdx :
                /\ Between(log[i].x, call.points[1][1], call.points[2][1])
                /\ Between(log[i].y, call.points[1][2], call.points[2][2])
          /\ \E i \in SetAtIdx :
                /\ log[i].x = call.points[2][1]
                /\ log[i].y = call.points[2][2]
                /\ \A j \in SetAtIdx : j <= i

(***************************************************************************)
(* C27  The antialiasing sampler reads the pixel the writer writes.  For   *)
(* every BytesPerPixel of 1, 2, 3 and 4 and every pitch of at least        *)
(* w * BytesPerPixel, the read of the destination pixel (x, y) and the     *)
(* store to (x, y) start at the same byte offset, y * pitch +              *)
(* x * BytesPerPixel, and span the same number of bytes.                   *)
(***************************************************************************)
SamplerReadsWrittenPixel ==
    \A i \in 1 .. Len(log), j \in 1 .. Len(log) :
       (log[i].ev = "load" /\ log[j].ev = "store"
           /\ log[i].x = log[j].x /\ log[i].y = log[j].y)
       => /\ log[i].at = log[j].at
          /\ log[i].size = log[j].size
          /\ log[i].at = log[i].y * call.format.pitch
                            + log[i].x * call.format.BytesPerPixel

(***************************************************************************)
(* C28  Quadrant confinement.  A circle call with exactly one draw_* flag, *)
(* a radius >= 1 and a width >= 0 hands set_at pixels of that quadrant     *)
(* alone: right of or at cx and above cy for draw_top_right, left of cx    *)
(* and above cy for draw_top_left, left of cx and at or below cy for       *)
(* draw_bottom_left, right of or at cx and at or below cy for              *)
(* draw_bottom_right.                                                      *)
(***************************************************************************)
\* The pixel p lies in quadrant q, numbered as the flags are.
InQuadrant(p, q) ==
    CASE q = 1 -> p[1] >= Cx /\ p[2] < Cy
      [] q = 2 -> p[1] < Cx /\ p[2] < Cy
      [] q = 3 -> p[1] < Cx /\ p[2] >= Cy
      [] OTHER -> p[1] >= Cx /\ p[2] >= Cy

QuadrantConfined ==
    \A q \in 1 .. 4 :
       (/\ call.op = "circle"
        /\ call.radius >= 1
        /\ call.width >= 0
        /\ call.quads = [i \in 1 .. 4 |-> IF i = q THEN 1 ELSE 0])
       => \A p \in Plotted(log) : InQuadrant(p, q)

(***************************************************************************)
(* C29  A filled polygon covers its vertices.  When polygon is called with *)
(* n >= 3 points and width 0, and no pixel of the fill is clipped, set_at  *)
(* is called for every vertex (px[i], py[i]), the vertices below both of   *)
(* their neighbours and strictly between miny and maxy included.           *)
(***************************************************************************)
PolygonFilled ==
    /\ call.op = "polygon"
    /\ call.width = 0
    /\ Len(call.points) >= 3
    /\ pyerr = ""

FillCoversVertices ==
    PolygonFilled /\ Unclipped
    => \A i \in 1 .. Len(call.points) :
          <<call.points[i][1], call.points[i][2]>> \in Plotted(log)

(***************************************************************************)
(* C30  The pairing of a scanline is memory safe.  In a polygon fill that  *)
(* scans, on every scanline y in miny .. maxy the number of x-intersections*)
(* recorded is even and at most n, and the pairing loop reads no entry of  *)
(* x_intersect beyond those written.                                       *)
(***************************************************************************)
\* n_intersections of scanline y for the points of the call.
Intersections(y) ==
    Len(x_intersections(Xs(call.points), Ys(call.points), 1, y,
                        SeqMax(Ys(call.points))))

FillScans == PolygonFilled /\ SeqMin(Ys(call.points)) # SeqMax(Ys(call.points))

ScanlinePairsSafe ==
    FillScans
    => /\ \A y \in SeqMin(Ys(call.points)) .. SeqMax(Ys(call.points)) :
             /\ Intersections(y) % 2 = 0
             /\ Intersections(y) <= Len(call.points)
       /\ ~fault.ub

\* A fill one of whose scanlines meets every edge, and one of whose vertices
\* lies strictly between the highest and the lowest row.
ScanlinePairsWitness ==
    /\ FillScans
    /\ pix # {}
    /\ \E y \in SeqMin(Ys(call.points)) .. SeqMax(Ys(call.points)) :
          Intersections(y) = Len(call.points)
    /\ \E i \in 1 .. Len(call.points) :
          /\ SeqMin(Ys(call.points)) < call.points[i][2]
          /\ call.points[i][2] < SeqMax(Ys(call.points))

====
